---- MODULE Spec2Model ----
(***************************************************************************)
(* Model of the PlanetKillerSimulator code:                                *)
(*   meteor_impact_calculator.py  calculate_meteor_impact                  *)
(*   meteor_physics.py            MeteorMaterial, ImpactCalculator,        *)
(*                                calculate_casualties                     *)
(*   simulator.py                 get_float_input, select_city,            *)
(*                                select_material, run_simulation, main    *)
(*                                                                         *)
(* Three specifications share the variables: Spec (calls of the            *)
(* calculation functions), SpecInput (one call of get_float_input) and     *)
(* SpecCli (a session of main).                                            *)
(*                                                                         *)
(* Numbers.  The engines are chains of products, quotients and powers of   *)
(* floats, so a float is modelled by its sign and its decimal logarithm in *)
(* thousandths of a decade: [kind, sg, lg] stands for sg * 10^(lg/1000).   *)
(* Products add lg, x ** (p/q) scales lg, comparisons compare (sg, lg).    *)
(* A negative float raised to a fractional power is a Python complex       *)
(* number (kind "complex"): it propagates through products and makes an    *)
(* ordering comparison raise TypeError.  Every float literal of the source *)
(* appears as Pos(round(1000*log10(literal))).                             *)
(* calculate_casualties adds and subtracts, so it is modelled on exact     *)
(* rationals [n, d] with math.pi taken as 355/113.  The two divisions of   *)
(* the crater dimensions are IEEE doubles divided bit for bit.  A line     *)
(* entered at a prompt is a sequence of characters, and float() and int()  *)
(* read it character by character into an exact rational, nan or inf.      *)
(***************************************************************************)
EXTENDS Integers, Sequences, FiniteSets, TLC

VARIABLES call, ret, gfi, pc, depth, entry, event, simulations, yes

vars == <<call, ret, gfi, pc, depth, entry, event, simulations, yes>>

\* the state of the library calls, of one get_float_input call, of the CLI
engineVars == <<call, ret>>

cliVars == <<pc, depth, entry, event, simulations, yes>>

(* ---------------------------------------------------------------------- *)
(* Float arithmetic on the logarithmic grid                                *)
(* ---------------------------------------------------------------------- *)

Pos(l) == [kind |-> "real", sg |-> 1, lg |-> l]

Neg(l) == [kind |-> "real", sg |-> -1, lg |-> l]

Zero == [kind |-> "real", sg |-> 0, lg |-> 0]

Cplx == [kind |-> "complex", sg |-> 0, lg |-> 0]

IsComplex(x) == x.kind = "complex"

\* nearest integer to a/b, b > 0
RoundDiv(a, b) == (2 * a + b) \div (2 * b)

\* underflow: a result below half the smallest subnormal double, 2^-1075 =
\* 10^-323.607, is rounded to zero.  (Results above the largest double do not
\* occur for the inputs of the model.)
Flush(x) == IF x.lg < -323607 THEN Zero ELSE x

\* x * y
Mul(x, y) ==
  IF IsComplex(x) \/ IsComplex(y) THEN Cplx
  ELSE IF x.sg = 0 \/ y.sg = 0 THEN Zero
  ELSE Flush([kind |-> "real", sg |-> x.sg * y.sg, lg |-> x.lg + y.lg])

\* x / y for a non-zero real divisor y (every divisor in the source is a literal)
Div(x, y) ==
  IF IsComplex(x) \/ IsComplex(y) THEN Cplx
  ELSE IF x.sg = 0 THEN Zero
  ELSE Flush([kind |-> "real", sg |-> x.sg * y.sg, lg |-> x.lg - y.lg])

\* x ** n for an integer literal n in {2, 3}: stays real
PowInt(x, n) ==
  IF IsComplex(x) THEN Cplx
  ELSE IF x.sg = 0 THEN Zero
  ELSE Flush([kind |-> "real", sg |-> IF n % 2 = 0 THEN 1 ELSE x.sg, lg |-> n * x.lg])

\* x ** (num/den) for a fractional float literal: 0 ** p = 0, and a negative
\* base gives a Python complex
PowFrac(x, num, den) ==
  IF IsComplex(x) THEN Cplx
  ELSE IF x.sg = 0 THEN Zero
  ELSE IF x.sg < 0 THEN Cplx
  ELSE Flush([kind |-> "real", sg |-> 1, lg |-> RoundDiv(x.lg * num, den)])

\* x < y on reals
Less(x, y) ==
  \/ x.sg < y.sg
  \/ x.sg = y.sg /\ x.sg = 1 /\ x.lg < y.lg
  \/ x.sg = y.sg /\ x.sg = -1 /\ x.lg > y.lg

\* x <= y on reals
LessEq(x, y) == ~Less(y, x)

\* mutant: the cosine of the angle
CosDeg(deg) ==
  CASE deg = 0 -> Pos(0)
    [] deg = 30 -> Pos(-62)
    [] deg = 45 -> Pos(-151)
    [] deg = 90 -> Zero

\* math.sin(math.radians(deg)) for the angles the model uses
SinDeg(deg) ==
  CASE deg = 0 -> Zero
    [] deg = 30 -> Pos(-301)
    [] deg = 45 -> Pos(-151)
    [] deg = 90 -> Pos(0)

\* 1000 * math.log10(x) for a positive real x, in thousandths
Log10Milli(x) == x.lg

Min(a, b) == IF a <= b THEN a ELSE b

(* ---------------------------------------------------------------------- *)
(* IEEE 754 double precision: division by a small integer                  *)
(* ---------------------------------------------------------------------- *)

\* The crater dimensions are quotients of one float by the literals 5.0 and
\* 1000.0; whether two such chains agree to the last bit is decided by the
\* rounding of each quotient, which the logarithmic grid does not show.  A
\* positive normal double is [m, e]: m its 53 significand bits (most
\* significant first, m[1] = 1) and e its exponent, the value being
\* 1.m[2]m[3]...m[53] * 2^e.

\* bits of one hexadecimal digit
HexBits(h) == <<(h \div 8) % 2, (h \div 4) % 2, (h \div 2) % 2, h % 2>>

RECURSIVE HexToBits(_)
HexToBits(hex) == IF hex = <<>> THEN <<>> ELSE HexBits(Head(hex)) \o HexToBits(Tail(hex))

\* the double that float.hex() prints as 0x1.<hex>p<e>
FromHex(hex, e) == [m |-> <<1>> \o HexToBits(hex), e |-> e]

\* schoolbook division of a bit string by c, one bit at a time
RECURSIVE LongDiv(_, _, _, _, _)
LongDiv(bits, c, i, r, q) ==
  IF i > Len(bits) THEN [q |-> q, r |-> r]
  ELSE LongDiv(bits, c, i + 1, (2 * r + bits[i]) % c, Append(q, (2 * r + bits[i]) \div c))

RECURSIVE LeadingZeros(_)
LeadingZeros(bits) ==
  IF bits = <<>> \/ Head(bits) = 1 THEN 0 ELSE 1 + LeadingZeros(Tail(bits))

\* bits + 1; carry = 1 when the sum needs one more bit
RECURSIVE IncBits(_)
IncBits(bits) ==
  IF bits = <<>> THEN [bits |-> <<>>, carry |-> 1]
  ELSE LET n == Len(bits)
       IN  IF bits[n] = 0
           THEN [bits |-> [bits EXCEPT ![n] = 1], carry |-> 0]
           ELSE LET rest == IncBits(SubSeq(bits, 1, n - 1))
                IN  [bits |-> Append(rest.bits, 0), carry |-> rest.carry]

\* the next double above x
NextUp(x) ==
  LET inc == IncBits(x.m)
  IN  IF inc.carry = 1
      THEN [m |-> <<1>> \o [i \in 1..52 |-> 0], e |-> x.e + 1]
      ELSE [m |-> inc.bits, e |-> x.e]

\* x / c for an integer 2 <= c < 2^10: the exact quotient of the 53-bit
\* significand extended by 12 zero bits, rounded to 53 bits, to nearest with
\* ties to even
DivDouble(x, c) ==
  LET dividend == x.m \o [i \in 1..12 |-> 0]
      d == LongDiv(dividend, c, 1, 0, <<>>)
      z == LeadingZeros(d.q)
      len == Len(d.q) - z
      top == SubSeq(d.q, z + 1, z + 53)
      guard == d.q[z + 54]
      sticky == d.r # 0 \/ \E i \in (z + 55)..Len(d.q) : d.q[i] = 1
      truncated == [m |-> top, e |-> x.e + len - (65)]
  IN  IF guard = 1 /\ (sticky \/ top[53] = 1)
      THEN NextUp(truncated)
      ELSE truncated

(* ---------------------------------------------------------------------- *)
(* meteor_impact_calculator.py : calculate_meteor_impact                   *)
(* ---------------------------------------------------------------------- *)

\* mutant: the ice branch dropped
target_density_without_ice(target_surface_type) ==
  IF target_surface_type = "ocean" THEN Pos(3011)
  ELSE Pos(3398)

\* lines 61-65: target (ground) density
target_density_of(target_surface_type) ==
  IF target_surface_type = "ocean" THEN Pos(3011)          \* 1025.0
  ELSE IF target_surface_type = "ice" THEN Pos(2962)       \* 917.0
  ELSE Pos(3398)                                           \* 2500.0

\* lines 82-83: fireball radius in km
fireball_radius_km_of(energy_megatons) ==
  Div(Mul(Mul(Pos(-553), PowFrac(energy_megatons, 33, 100)), Pos(3000)), Pos(3000))

\* mutant: the 20.0 of the light-damage line applied to the fireball radius
total_destruction_radius_km_wrong_factor(energy_megatons) ==
  Mul(Pos(1301), fireball_radius_km_of(energy_megatons))

\* line 90
total_destruction_radius_km_of(energy_megatons) ==
  Mul(Pos(301), fireball_radius_km_of(energy_megatons))

\* line 93
severe_damage_radius_km_of(energy_megatons) ==
  Mul(Pos(699), PowFrac(energy_megatons, 33, 100))

\* line 96
moderate_damage_radius_km_of(energy_megatons) ==
  Mul(Pos(1000), PowFrac(energy_megatons, 33, 100))

\* line 99
light_damage_radius_km_of(energy_megatons) ==
  Mul(Pos(1301), PowFrac(energy_megatons, 33, 100))

\* mutant: the upper threshold tested with >= instead of >
stratosphere_fraction_inclusive(energy_megatons) ==
  LET first == IF Less(energy_megatons, Pos(2000)) THEN Pos(-2000) ELSE Pos(-1000)
  IN  IF LessEq(Pos(4000), energy_megatons) THEN Pos(-523) ELSE first

\* lines 108-110: 0.01 if E < 100 else 0.1; then 0.3 if E > 10000
stratosphere_fraction_of(energy_megatons) ==
  LET first == IF Less(energy_megatons, Pos(2000)) THEN Pos(-2000) ELSE Pos(-1000)
  IN  IF Less(Pos(4000), energy_megatons) THEN Pos(-523) ELSE first

\* lines 114-122: coverage area
dust_coverage_km2_of(energy_megatons) ==
  IF Less(energy_megatons, Pos(2000)) THEN Mul(energy_megatons, Pos(4000))
  ELSE IF Less(energy_megatons, Pos(4000)) THEN Mul(energy_megatons, Pos(4699))
  ELSE Pos(8708)                                           \* 510000000

\* mutant: latitude 0 counted as northern
affected_hemisphere_zero_north(energy_megatons, impact_latitude) ==
  IF Less(energy_megatons, Pos(2000)) THEN "regional"
  ELSE IF Less(energy_megatons, Pos(4000))
       THEN (IF impact_latitude >= 0 THEN "northern" ELSE "southern")
  ELSE "global"

\* lines 114-122: hemisphere label
affected_hemisphere_of(energy_megatons, impact_latitude) ==
  IF Less(energy_megatons, Pos(2000)) THEN "regional"
  ELSE IF Less(energy_megatons, Pos(4000))
       THEN (IF impact_latitude > 0 THEN "northern" ELSE "southern")
  ELSE "global"

\* mutant: thresholds tested with <= instead of <
impact_winter_duration_inclusive(stratosphere_dust_mass) ==
  IF LessEq(stratosphere_dust_mass, Pos(12000)) THEN 0
  ELSE IF LessEq(stratosphere_dust_mass, Pos(14000)) THEN 500
  ELSE IF LessEq(stratosphere_dust_mass, Pos(15000)) THEN 2000
  ELSE 5000 + Log10Milli(Div(stratosphere_dust_mass, Pos(15000)))

\* lines 125-132: impact winter duration, in thousandths of a year
impact_winter_duration_of(stratosphere_dust_mass) ==
  IF Less(stratosphere_dust_mass, Pos(12000)) THEN 0
  ELSE IF Less(stratosphere_dust_mass, Pos(14000)) THEN 500
  ELSE IF Less(stratosphere_dust_mass, Pos(15000)) THEN 2000
  ELSE 5000 + Log10Milli(Div(stratosphere_dust_mass, Pos(15000)))

\* mutant: no cap at 25 degrees
temperature_drop_uncapped(stratosphere_dust_mass) ==
  IF Less(stratosphere_dust_mass, Pos(12000)) THEN 0
  ELSE 2 * Log10Milli(Div(stratosphere_dust_mass, Pos(12000)))

\* lines 135-138: temperature drop, in thousandths of a degree
temperature_drop_of(stratosphere_dust_mass) ==
  IF Less(stratosphere_dust_mass, Pos(12000)) THEN 0
  ELSE Min(25000, 2 * Log10Milli(Div(stratosphere_dust_mass, Pos(12000))))

\* mutant: thresholds tested with <= instead of <
severity_inclusive(energy_megatons) ==
  IF LessEq(energy_megatons, Pos(0)) THEN "minor"
  ELSE IF LessEq(energy_megatons, Pos(2000)) THEN "significant"
  ELSE IF LessEq(energy_megatons, Pos(4000)) THEN "catastrophic"
  ELSE IF LessEq(energy_megatons, Pos(8000)) THEN "extinction-level"
  ELSE "planet-killer"

\* mutant: the labels of the second and third branch exchanged
severity_swapped(energy_megatons) ==
  IF Less(energy_megatons, Pos(0)) THEN "minor"
  ELSE IF Less(energy_megatons, Pos(2000)) THEN "catastrophic"
  ELSE IF Less(energy_megatons, Pos(4000)) THEN "significant"
  ELSE IF Less(energy_megatons, Pos(8000)) THEN "extinction-level"
  ELSE "planet-killer"

\* lines 141-150: severity category
severity_of(energy_megatons) ==
  IF Less(energy_megatons, Pos(0)) THEN "minor"
  ELSE IF Less(energy_megatons, Pos(2000)) THEN "significant"
  ELSE IF Less(energy_megatons, Pos(4000)) THEN "catastrophic"
  ELSE IF Less(energy_megatons, Pos(8000)) THEN "extinction-level"
  ELSE "planet-killer"

\* mutant: 10000 megatons counted as an extinction event
is_extinction_event_inclusive(energy_megatons) == LessEq(Pos(4000), energy_megatons)

\* line 206: energy_megatons > 10000
is_extinction_event_of(energy_megatons) == Less(Pos(4000), energy_megatons)

\* the whole function, lines 10-209.  The result is [status |-> "ok", value |-> dict]
\* or the exception raised and the line that raises it.
calculate_meteor_impact(meteor_diameter, meteor_velocity, meteor_density, impact_angle, target_surface_type, impact_latitude, impact_longitude) ==
  LET meteor_radius == Div(meteor_diameter, Pos(301))
      meteor_volume == Mul(Mul(Pos(125), Pos(497)), PowInt(meteor_radius, 3))
      meteor_mass == Mul(meteor_volume, meteor_density)
      kinetic_energy == Mul(Mul(Pos(-301), meteor_mass), PowInt(meteor_velocity, 2))
      energy_megatons == Div(kinetic_energy, Pos(15622))
      angle_correction == SinDeg(impact_angle)
      target_density == target_density_of(target_surface_type)
      crater_diameter ==
        Mul(Mul(Mul(Pos(301), PowFrac(meteor_diameter, 78, 100)),
                PowFrac(Div(meteor_velocity, Pos(3000)), 44, 100)),
            angle_correction)
      crater_depth == Div(crater_diameter, Pos(699))
      crater_volume ==
        Mul(Mul(Div(Pos(497), Pos(477)), PowInt(Div(crater_diameter, Pos(301)), 2)),
            crater_depth)
      thermal_energy == Mul(kinetic_energy, Pos(-398))
      fireball_radius_km == fireball_radius_km_of(energy_megatons)
      impact_temperature ==
        [base |-> 5000000, excess |-> Mul(PowFrac(energy_megatons, 1, 2), Pos(2699))]
      ejecta_volume == Mul(crater_volume, Pos(1477))
      dust_ejected_mass == Mul(ejecta_volume, target_density)
      stratosphere_dust_mass ==
        Mul(dust_ejected_mass, stratosphere_fraction_of(energy_megatons))
  IN
  IF IsComplex(stratosphere_dust_mass)
  THEN [status |-> "TypeError", line |-> 125]
  ELSE
  [status |-> "ok",
   value |->
    [input |->
       [meteor_diameter_m |-> meteor_diameter,
        meteor_diameter_km |-> Div(meteor_diameter, Pos(3000)),
        meteor_velocity_ms |-> meteor_velocity,
        meteor_velocity_kms |-> Div(meteor_velocity, Pos(3000)),
        meteor_density |-> meteor_density,
        meteor_mass_kg |-> meteor_mass,
        impact_angle_deg |-> impact_angle,
        target_surface_type |-> target_surface_type,
        impact_latitude |-> impact_latitude,
        impact_longitude |-> impact_longitude],
     crater |->
       [diameter_km |-> Div(crater_diameter, Pos(3000)),
        depth_km |-> Div(crater_depth, Pos(3000)),
        volume_km3 |-> Div(crater_volume, Pos(9000))],
     energy |->
       [kinetic_energy_joules |-> kinetic_energy,
        kinetic_energy_megatons |-> energy_megatons,
        thermal_energy_joules |-> thermal_energy,
        impact_temperature_kelvin |-> impact_temperature,
        impact_temperature_celsius |->
          [base |-> impact_temperature.base - 273150,
           excess |-> impact_temperature.excess],
        fireball_radius_km |-> fireball_radius_km],
     destruction_zones |->
       [total_destruction_km |-> total_destruction_radius_km_of(energy_megatons),
        severe_damage_km |-> severe_damage_radius_km_of(energy_megatons),
        moderate_damage_km |-> moderate_damage_radius_km_of(energy_megatons),
        light_damage_km |-> light_damage_radius_km_of(energy_megatons)],
     dust_effects |->
       [dust_ejected_mass_kg |-> dust_ejected_mass,
        stratosphere_dust_mass_kg |-> stratosphere_dust_mass,
        dust_cloud_coverage_km2 |-> dust_coverage_km2_of(energy_megatons),
        affected_hemisphere |-> affected_hemisphere_of(energy_megatons, impact_latitude),
        impact_winter_duration_years |-> impact_winter_duration_of(stratosphere_dust_mass),
        global_temperature_drop_celsius |-> temperature_drop_of(stratosphere_dust_mass)],
     assessment |->
       [severity |-> severity_of(energy_megatons),
        is_extinction_event |-> is_extinction_event_of(energy_megatons),
        is_global_catastrophe |->
          affected_hemisphere_of(energy_megatons, impact_latitude) = "global"]]]

\* line 68 in double arithmetic: the value of
\*   2.0 * d**0.78 * (v/1000.0)**0.44 * math.sin(math.radians(angle))
\* as CPython computes it (float.hex()), for the impactors of CraterInputs
crater_diameter_double(diameter_m, velocity_ms, angle_deg) ==
  CASE <<diameter_m, velocity_ms, angle_deg>> = <<100, 20000, 30>> ->
         FromHex(<<0, 15, 5, 2, 2, 4, 3, 13, 9, 15, 15, 7, 1>>, 7)
    [] <<diameter_m, velocity_ms, angle_deg>> = <<100, 20000, 45>> ->
         FromHex(<<7, 15, 11, 4, 10, 5, 5, 4, 6, 3, 4, 13, 1>>, 7)
    [] <<diameter_m, velocity_ms, angle_deg>> = <<100, 20000, 90>> ->
         FromHex(<<0, 15, 5, 2, 2, 4, 3, 13, 9, 15, 15, 7, 2>>, 8)
    [] <<diameter_m, velocity_ms, angle_deg>> = <<238, 20000, 30>> ->
         FromHex(<<0, 10, 12, 12, 6, 4, 1, 8, 10, 11, 4, 9, 3>>, 8)
    [] <<diameter_m, velocity_ms, angle_deg>> = <<1000, 20000, 45>> ->
         FromHex(<<2, 1, 0, 1, 12, 3, 14, 4, 9, 4, 8, 6, 6>>, 10)
    [] <<diameter_m, velocity_ms, angle_deg>> = <<100000, 20000, 90>> ->
         FromHex(<<12, 15, 11, 13, 1, 3, 5, 1, 4, 7, 3, 5, 15>>, 15)

\* mutant: depth taken as a quarter of the diameter
crater_dimensions_quarter(crater_diameter) ==
  LET crater_depth == DivDouble(crater_diameter, 4)
  IN  [diameter_km |-> DivDouble(crater_diameter, 1000),
       depth_km |-> DivDouble(crater_depth, 1000)]

\* lines 69, 73-74 in double arithmetic: crater_depth = crater_diameter / 5.0,
\* and each of the two lengths divided by 1000.0 for the result
crater_dimensions(crater_diameter) ==
  LET crater_depth == DivDouble(crater_diameter, 5)
  IN  [diameter_km |-> DivDouble(crater_diameter, 1000),
       depth_km |-> DivDouble(crater_depth, 1000)]

(* ---------------------------------------------------------------------- *)
(* Inputs of calculate_meteor_impact                                       *)
(* ---------------------------------------------------------------------- *)

\* diameters of 1e-110 m and 1e-109 m, whose cube is below the smallest double
TinyDiameters == {-110000, -109000}

\* 31.6 m, 3.16 km, 100 km; zero and a negative diameter
Diameters == {Neg(0), Zero, Pos(1500), Pos(3500), Pos(5000)}

\* 1, 10, 100 km/s and the default 20 km/s; zero and a negative velocity
Velocities == {Neg(3000), Zero, Pos(3000), Pos(4000), Pos(4301), Pos(5000)}

\* 3000 kg/m3 (the default), and densities around 10^3.704 = 5058 kg/m3, for
\* which the diameters and velocities above give energies of exactly
\* 10^-2, 1, 10^2, 10^4, 10^6 and 10^8 megatons; zero and a negative density
Densities == {Neg(3477), Zero, Pos(3477), Pos(3703), Pos(3704), Pos(3705)}

Angles == {0, 45, 90}

SurfaceTypes == {"land", "ocean", "desert", "ice", "lava"}

Latitudes == {-45, 0, 45}

ImpactArgs(d, v, rho, ang, surf, lat) ==
  [meteor_diameter |-> d, meteor_velocity |-> v, meteor_density |-> rho,
   impact_angle |-> ang, target_surface_type |-> surf,
   impact_latitude |-> lat, impact_longitude |-> 0]

\* impactors whose stratospheric dust mass is just below, exactly on and just
\* above 10^12, 10^14 and 10^15 kg: a 5 km stone at 10 km/s on land, and two
\* very tenuous bodies (10^-5 kg/m3, 1 km/s, vertical) on ice
WinterThresholdInputs ==
  {ImpactArgs(Pos(ld), Pos(4000), Pos(3477), 90, "land", 0) : ld \in {3719, 3720, 3722}}
  \cup
  {ImpactArgs(Pos(ld), Pos(3000), Pos(-5000), 90, "ice", 0) :
      ld \in {4246, 4247, 4249, 5528, 5529, 5531}}

\* an impactor of 10^8.1 m, which raises more than 10^24.5 kg of dust: the
\* temperature drop of line 138 is cut off at 25 degrees
TemperatureCapInputs == {ImpactArgs(Pos(8100), Pos(4301), Pos(3477), 90, "land", 0)}

\* every impactor at the default angle, surface and position, and every
\* angle, surface and latitude for the impactors of density 10^3.704
ImpactInputs ==
  {ImpactArgs(d, v, rho, 45, "land", 0) :
      d \in Diameters, v \in Velocities, rho \in Densities}
  \cup
  {ImpactArgs(x[1], x[2], Pos(3704), x[3], x[4], x[5]) :
      x \in {Pos(1500), Pos(3500)} \X {Pos(3000), Pos(4000), Pos(5000)}
            \X Angles \X SurfaceTypes \X Latitudes}
  \cup
  {ImpactArgs(Pos(5000), Pos(4301), Pos(3477), 90, "ocean", 0)}
  \cup
  WinterThresholdInputs
  \cup
  TemperatureCapInputs
  \cup
  {ImpactArgs(Pos(ld), Pos(4301), Pos(3477), 45, "land", 0) : ld \in TinyDiameters}

\* impactors for the crater dimensions in double arithmetic: diameter in m,
\* velocity in m/s, angle in degrees
CraterInputs ==
  {[diameter_m |-> x[1], velocity_ms |-> 20000, angle_deg |-> x[2]] :
      x \in {<<100, 30>>, <<100, 45>>, <<100, 90>>, <<238, 30>>,
              <<1000, 45>>, <<100000, 90>>}}

ImpactOf(a) ==
  calculate_meteor_impact(a.meteor_diameter, a.meteor_velocity, a.meteor_density,
                          a.impact_angle, a.target_surface_type,
                          a.impact_latitude, a.impact_longitude)

(* ---------------------------------------------------------------------- *)
(* meteor_physics.py : MeteorMaterial                                      *)
(* ---------------------------------------------------------------------- *)

\* A Python str is the sequence of its characters.
UpperChars == <<"A", "B", "C", "D", "E", "F", "G", "H", "I", "J", "K", "L", "M",
                "N", "O", "P", "Q", "R", "S", "T", "U", "V", "W", "X", "Y", "Z">>

LowerChars == <<"a", "b", "c", "d", "e", "f", "g", "h", "i", "j", "k", "l", "m",
                "n", "o", "p", "q", "r", "s", "t", "u", "v", "w", "x", "y", "z">>

\* str.lower(): every upper-case letter is replaced, every other character kept
lower(s) ==
  [i \in 1..Len(s) |->
     IF \E k \in 1..26 : UpperChars[k] = s[i]
     THEN LowerChars[CHOOSE k \in 1..26 : UpperChars[k] = s[i]]
     ELSE s[i]]

key_iron == <<"i", "r", "o", "n">>

key_stone == <<"s", "t", "o", "n", "e">>

key_ice == <<"i", "c", "e">>

key_nickel_iron == <<"n", "i", "c", "k", "e", "l", "_", "i", "r", "o", "n">>

\* MeteorMaterial.MATERIALS, lines 12-33
MATERIALS ==
  (key_iron :> [density |-> 7870, name |-> "Iron"])
  @@ (key_stone :> [density |-> 3300, name |-> "Stone"])
  @@ (key_ice :> [density |-> 917, name |-> "Ice"])
  @@ (key_nickel_iron :> [density |-> 8000, name |-> "Nickel-Iron"])

\* mutant: the lookup without .lower()
get_density_case_sensitive(material_type) ==
  IF material_type \in DOMAIN MATERIALS
  THEN MATERIALS[material_type].density
  ELSE MATERIALS[key_stone].density

\* MeteorMaterial.get_density, lines 35-40
get_density(material_type) ==
  IF lower(material_type) \in DOMAIN MATERIALS
  THEN MATERIALS[lower(material_type)].density
  ELSE MATERIALS[key_stone].density

\* the int densities of MATERIALS as floats (volume * material_density)
Float(n) ==
  CASE n = 7870 -> Pos(3896)
    [] n = 3300 -> Pos(3519)
    [] n = 917 -> Pos(2962)
    [] n = 8000 -> Pos(3903)

(* ---------------------------------------------------------------------- *)
(* meteor_physics.py : ImpactCalculator                                    *)
(* ---------------------------------------------------------------------- *)

\* line 57: Joules per kiloton of TNT, 4.184e12
TNT_ENERGY == Pos(12622)

\* mutant: the volume returned as the mass
calculate_mass_without_density(diameter, material_density) ==
  LET radius == Div(diameter, Pos(301))
  IN  Mul(Mul(Pos(125), Pos(497)), PowInt(radius, 3))

\* lines 59-74
calculate_mass(diameter, material_density) ==
  LET radius == Div(diameter, Pos(301))
      volume == Mul(Mul(Pos(125), Pos(497)), PowInt(radius, 3))
  IN  Mul(volume, material_density)

\* lines 76-88
calculate_kinetic_energy(mass, velocity) ==
  Mul(Mul(Pos(-301), mass), PowInt(velocity, 2))

\* lines 90-101
energy_to_tnt_kilotons(energy_joules) == Div(energy_joules, TNT_ENERGY)

\* lines 103-118
calculate_crater_diameter(energy_joules) ==
  LET energy_megatons == Div(energy_joules, Pos(15622))
  IN  Mul(Pos(3255), PowFrac(energy_megatons, 25, 100))

\* math.sqrt of a non-negative real
Sqrt(x) == PowFrac(x, 1, 2)

\* lines 137-141: one entry of the returned dict
total_destruction_of(energy_megatons) == Mul(Sqrt(energy_megatons), Pos(398))

\* mutant: the factor of the total-destruction line
severe_damage_same_as_total(energy_megatons) == Mul(Sqrt(energy_megatons), Pos(398))

severe_damage_of(energy_megatons) == Mul(Sqrt(energy_megatons), Pos(699))

moderate_damage_of(energy_megatons) == Mul(Sqrt(energy_megatons), Pos(1000))

light_damage_of(energy_megatons) == Mul(Sqrt(energy_megatons), Pos(1301))

fireball_of(energy_megatons) == Mul(PowFrac(energy_megatons, 4, 10), Pos(-301))

\* lines 120-142; math.sqrt raises ValueError on a negative argument
calculate_destruction_radius(energy_joules) ==
  LET energy_megatons == Div(energy_joules, Pos(15622))
  IN  IF energy_megatons.sg < 0
      THEN [status |-> "ValueError", line |-> 137]
      ELSE [status |-> "ok",
            value |-> [total_destruction |-> total_destruction_of(energy_megatons),
                       severe_damage |-> severe_damage_of(energy_megatons),
                       moderate_damage |-> moderate_damage_of(energy_megatons),
                       light_damage |-> light_damage_of(energy_megatons),
                       fireball |-> fireball_of(energy_megatons)]]

\* lines 144-174
calculate_impact_effects(diameter, velocity, material) ==
  LET density == get_density(material)
      mass == calculate_mass(diameter, Float(density))
      energy == calculate_kinetic_energy(mass, velocity)
      tnt_kilotons == energy_to_tnt_kilotons(energy)
      crater_diameter == calculate_crater_diameter(energy)
      destruction_radii == calculate_destruction_radius(energy)
  IN  IF destruction_radii.status /= "ok"
      THEN destruction_radii
      ELSE [status |-> "ok",
            value |-> [diameter_m |-> diameter,
                       velocity_ms |-> velocity,
                       material |-> material,
                       density_kgm3 |-> density,
                       mass_kg |-> mass,
                       energy_joules |-> energy,
                       tnt_equivalent_kt |-> tnt_kilotons,
                       crater_diameter_m |-> crater_diameter,
                       destruction_zones |-> destruction_radii.value]]

(* ---------------------------------------------------------------------- *)
(* Inputs of the ImpactCalculator operations                               *)
(* ---------------------------------------------------------------------- *)

MaterialNames ==
  {key_iron, key_stone, key_ice, key_nickel_iron,
   <<"I", "R", "O", "N">>, <<"I", "r", "o", "n">>, <<"S", "t", "o", "n", "E">>,
   <<"I", "C", "E">>, <<"N", "i", "c", "k", "e", "l", "_", "I", "r", "o", "n">>,
   <<"u", "n", "o", "b", "t", "a", "i", "n", "i", "u", "m">>,
   <<"i", "r", "o", "n", " ">>, <<"S", "T", "0", "N", "E">>, <<>>}

\* 0.1 m, 10 m, 50 m, 1 km; zero and a negative diameter
EffectDiameters ==
  {Neg(1000), Zero, Pos(-1000), Pos(1000), Pos(1699), Pos(3000)}
  \cup {Pos(ld) : ld \in TinyDiameters}

\* 100 m/s, 15 km/s, 20 km/s; a negative velocity
EffectVelocities == {Neg(4301), Pos(2000), Pos(4176), Pos(4301)}

EffectInputs ==
  [diameter : EffectDiameters, velocity : EffectVelocities, material : MaterialNames]

\* energies in Joules from 10^3 to 10^24, zero included
Energies == {Zero} \cup {Pos(500 * k) : k \in 6..48}

(* ---------------------------------------------------------------------- *)
(* Exact rationals for calculate_casualties                                *)
(* ---------------------------------------------------------------------- *)

Abs(n) == IF n < 0 THEN -n ELSE n

RECURSIVE Gcd(_, _)
Gcd(a, b) == IF b = 0 THEN a ELSE Gcd(b, a % b)

\* the rational n/d in lowest terms, d > 0
Rat(n, d) ==
  LET g == Gcd(Abs(n), Abs(d))
      s == IF d < 0 THEN -1 ELSE 1
  IN  [n |-> s * (n \div g), d |-> s * (d \div g)]

RInt(n) == [n |-> n, d |-> 1]

\* x * y, cancelling before multiplying
RMul(x, y) ==
  LET g1 == Gcd(Abs(x.n), y.d)
      g2 == Gcd(Abs(y.n), x.d)
  IN  Rat((x.n \div g1) * (y.n \div g2), (x.d \div g2) * (y.d \div g1))

\* x - y over the least common denominator
RSub(x, y) ==
  LET g == Gcd(x.d, y.d)
  IN  Rat(x.n * (y.d \div g) - y.n * (x.d \div g), (x.d \div g) * y.d)

\* int(x): truncation toward zero
RTrunc(x) == IF x.n >= 0 THEN x.n \div x.d ELSE -((-x.n) \div x.d)

\* math.pi
Pi == [n |-> 355, d |-> 113]

(* ---------------------------------------------------------------------- *)
(* meteor_physics.py : calculate_casualties                                *)
(* ---------------------------------------------------------------------- *)

\* the zones in the order of the list at lines 215-221
ZoneOrder == <<"fireball", "total_destruction", "severe_damage",
               "moderate_damage", "light_damage">>

ZoneNames == {ZoneOrder[i] : i \in 1..5}

\* lines 193-195
calculate_zone_area(outer_radius, inner_radius) ==
  RMul(Pi, RSub(RMul(outer_radius, outer_radius), RMul(inner_radius, inner_radius)))

\* lines 198-204
mortality_rates ==
  [fireball |-> Rat(100, 100), total_destruction |-> Rat(98, 100),
   severe_damage |-> Rat(70, 100), moderate_damage |-> Rat(30, 100),
   light_damage |-> Rat(5, 100)]

\* lines 207-213
injury_rates ==
  [fireball |-> Rat(0, 100), total_destruction |-> Rat(95, 100),
   severe_damage |-> Rat(85, 100), moderate_damage |-> Rat(60, 100),
   light_damage |-> Rat(40, 100)]

\* mutant: the zone area taken for the population
population_in_zone_without_density(zone_area, city_density) == zone_area

\* line 236
population_in_zone_of(zone_area, city_density) == RMul(zone_area, city_density)

\* line 239
deaths_of(population_in_zone, zone_name) ==
  RMul(population_in_zone, mortality_rates[zone_name])

\* mutant: the injury rate applied to the whole population of the zone
injuries_of_population(population_in_zone, deaths, zone_name) ==
  RMul(population_in_zone, injury_rates[zone_name])

\* lines 244-245
\* mutant: the deaths added to the population instead of taken from it
injuries_of_sign_error(population_in_zone, deaths, zone_name) ==
  RMul(RSub(population_in_zone, RMul(RInt(-1), deaths)), injury_rates[zone_name])

injuries_of(population_in_zone, deaths, zone_name) ==
  RMul(RSub(population_in_zone, deaths), injury_rates[zone_name])

RECURSIVE SumOver(_, _)
\* the running total of lines 241, 247, 249 over the five zones
SumOver(f, i) == IF i = 0 THEN 0 ELSE SumOver(f, i - 1) + f[ZoneOrder[i]]

\* lines 180-251.  destruction_zones is a dict of radii, city_density a number;
\* a missing key raises KeyError where the zones list is built.
calculate_casualties(destruction_zones, city_density) ==
  IF \E i \in 1..5 : ZoneOrder[i] \notin DOMAIN destruction_zones
  THEN [status |-> "KeyError", line |-> 216]
  ELSE
  LET inner(i) == IF i = 1 THEN RInt(0) ELSE destruction_zones[ZoneOrder[i - 1]]
      area == [i \in 1..5 |-> calculate_zone_area(destruction_zones[ZoneOrder[i]], inner(i))]
      pop == [i \in 1..5 |-> population_in_zone_of(area[i], city_density)]
      deaths == [i \in 1..5 |-> deaths_of(pop[i], ZoneOrder[i])]
      injuries == [i \in 1..5 |-> injuries_of(pop[i], deaths[i], ZoneOrder[i])]
      ByZone(f) ==
        [fireball |-> RTrunc(f[1]), total_destruction |-> RTrunc(f[2]),
         severe_damage |-> RTrunc(f[3]), moderate_damage |-> RTrunc(f[4]),
         light_damage |-> RTrunc(f[5])]
      deaths_by_zone == ByZone(deaths)
      injuries_by_zone == ByZone(injuries)
      affected_by_zone == ByZone(pop)
  IN  [status |-> "ok",
       value |-> [deaths_by_zone |-> deaths_by_zone,
                  injuries_by_zone |-> injuries_by_zone,
                  total_deaths |-> SumOver(deaths_by_zone, 5),
                  total_injuries |-> SumOver(injuries_by_zone, 5),
                  total_affected |-> SumOver(affected_by_zone, 5)]]

(* ---------------------------------------------------------------------- *)
(* Inputs of calculate_casualties                                          *)
(* ---------------------------------------------------------------------- *)

\* largest radius, in km, of a zone record passed directly
MaxRadius == 2

\* people per km2; a negative density is a number the function accepts
CityDensities == {-1, 0, 1, 100}

ZoneRecords ==
  [fireball : 0..MaxRadius, total_destruction : 0..MaxRadius,
   severe_damage : 0..MaxRadius, moderate_damage : 0..MaxRadius,
   light_damage : 0..MaxRadius]

\* radii as the numbers calculate_casualties computes with
AsRadii(z) == [k \in DOMAIN z |-> RInt(z[k])]

\* 1000*log10(k) for k = 1..20
LgInt == <<0, 301, 477, 602, 699, 778, 845, 903, 954, 1000,
           1041, 1079, 1114, 1146, 1176, 1204, 1230, 1255, 1279, 1301>>

\* a radius computed by an engine, in whole km (rounded down), as a rational;
\* a complex value is passed through
KmOf(x) ==
  IF IsComplex(x) THEN x
  ELSE IF x.sg <= 0 THEN RInt(0)
  ELSE RInt(Cardinality({k \in 1..Len(LgInt) : LgInt[k] <= x.lg}))

\* the engine's radii are within the whole-km table
InKmRange(zones) ==
  \A k \in DOMAIN zones : IsComplex(zones[k]) \/ zones[k].sg <= 0 \/ zones[k].lg < 1322

(* ---------------------------------------------------------------------- *)
(* simulator.py : text entered at a prompt                                 *)
(* ---------------------------------------------------------------------- *)

\* A line is a Python str (a sequence of characters).  float() and int() are
\* the parsers of the built-in types; a parsed float is a rational, nan, inf
\* or -inf.

Digits == <<"0", "1", "2", "3", "4", "5", "6", "7", "8", "9">>

IsDigit(c) == \E k \in 1..10 : Digits[k] = c

DigitValue(c) == (CHOOSE k \in 1..10 : Digits[k] = c) - 1

Whitespace == {" "}

\* str.strip()
RECURSIVE strip(_)
strip(s) ==
  IF s = <<>> THEN s
  ELSE IF Head(s) \in Whitespace THEN strip(Tail(s))
  ELSE IF s[Len(s)] \in Whitespace THEN strip(SubSeq(s, 1, Len(s) - 1))
  ELSE s

\* index after the digits-with-underscores that start at s[i], a digit
RECURSIVE DigitPartEnd(_, _)
DigitPartEnd(s, i) ==
  IF i + 1 <= Len(s) /\ IsDigit(s[i + 1]) THEN DigitPartEnd(s, i + 1)
  ELSE IF i + 2 <= Len(s) /\ s[i + 1] = "_" /\ IsDigit(s[i + 2]) THEN DigitPartEnd(s, i + 2)
  ELSE i + 1

\* index after the digit part at s[i]; i itself when there is none
ScanDigits(s, i) == IF i <= Len(s) /\ IsDigit(s[i]) THEN DigitPartEnd(s, i) ELSE i

\* number of digits, and their decimal value, in s[i .. j-1]
RECURSIVE CountDigits(_, _, _)
CountDigits(s, i, j) ==
  IF i >= j THEN 0
  ELSE (IF IsDigit(s[j - 1]) THEN 1 ELSE 0) + CountDigits(s, i, j - 1)

RECURSIVE DigitsValue(_, _, _)
DigitsValue(s, i, j) ==
  IF i >= j THEN 0
  ELSE IF IsDigit(s[j - 1]) THEN 10 * DigitsValue(s, i, j - 1) + DigitValue(s[j - 1])
  ELSE DigitsValue(s, i, j - 1)

RECURSIVE Pow10(_)
Pow10(k) == IF k = 0 THEN 1 ELSE 10 * Pow10(k - 1)

SignLen(s) == IF s # <<>> /\ Head(s) \in {"+", "-"} THEN 1 ELSE 0

SignOf(s) == IF s # <<>> /\ Head(s) = "-" THEN -1 ELSE 1

\* a stripped string: [sign] digits
IntStripped(t, first, last) ==
  IF last > first /\ last = Len(t) + 1
  THEN [status |-> "ok", value |-> SignOf(t) * DigitsValue(t, first, last)]
  ELSE [status |-> "ValueError", value |-> 0]

\* int(s): optional sign and digits, surrounding whitespace ignored
int(s) == IntStripped(strip(s), 1 + SignLen(strip(s)), ScanDigits(strip(s), 1 + SignLen(strip(s))))

Finite(q) == [kind |-> "finite", q |-> q]

NaN == [kind |-> "nan", q |-> [n |-> 0, d |-> 1]]

PlusInf == [kind |-> "inf", q |-> [n |-> 1, d |-> 1]]

MinusInf == [kind |-> "-inf", q |-> [n |-> -1, d |-> 1]]

\* the value of a well-formed decimal: sign * digits * 10^exponent, the
\* digits being those of t[first .. fracEnd-1] and fracDigits of them behind
\* the point
DecimalValue(t, first, fracEnd, fracDigits, exponent) ==
  IF exponent - fracDigits >= 0
  THEN RInt(SignOf(t) * DigitsValue(t, first, fracEnd) * Pow10(exponent - fracDigits))
  ELSE Rat(SignOf(t) * DigitsValue(t, first, fracEnd), Pow10(fracDigits - exponent))

\* the exponent part, from t[fracEnd] on: nothing, or e [sign] digits
FloatExponent(t, first, fracEnd, fracDigits, expStart, expEnd) ==
  IF expEnd = Len(t) + 1 /\ (expStart > fracEnd => expEnd > expStart)
  THEN [status |-> "ok",
        value |-> Finite(DecimalValue(t, first, fracEnd, fracDigits,
                    SignOf(SubSeq(t, fracEnd + 1, Len(t)))
                      * DigitsValue(t, expStart, expEnd)))]
  ELSE [status |-> "ValueError", value |-> NaN]

\* the fraction part: t[intEnd .. fracEnd-1] is empty or a point and digits
FloatFraction(t, first, intEnd, fracEnd) ==
  IF CountDigits(t, first, fracEnd) = 0
  THEN [status |-> "ValueError", value |-> NaN]
  ELSE IF fracEnd <= Len(t) /\ t[fracEnd] \in {"e", "E"}
  THEN FloatExponent(t, first, fracEnd, CountDigits(t, intEnd, fracEnd),
                     fracEnd + 1 + SignLen(SubSeq(t, fracEnd + 1, Len(t))),
                     ScanDigits(t, fracEnd + 1 + SignLen(SubSeq(t, fracEnd + 1, Len(t)))))
  ELSE FloatExponent(t, first, fracEnd, CountDigits(t, intEnd, fracEnd), fracEnd, fracEnd)

\* the integer part: the digits from t[first]
FloatInteger(t, first, intEnd) ==
  IF intEnd <= Len(t) /\ t[intEnd] = "."
  THEN FloatFraction(t, first, intEnd, ScanDigits(t, intEnd + 1))
  ELSE FloatFraction(t, first, intEnd, intEnd)

\* a stripped string: [sign] (nan | inf | infinity | decimal), letters in either case
FloatStripped(t, word) ==
  IF word = <<"n", "a", "n">> THEN [status |-> "ok", value |-> NaN]
  ELSE IF word \in {<<"i", "n", "f">>, <<"i", "n", "f", "i", "n", "i", "t", "y">>}
  THEN [status |-> "ok", value |-> IF SignOf(t) < 0 THEN MinusInf ELSE PlusInf]
  ELSE FloatInteger(t, 1 + SignLen(t), ScanDigits(t, 1 + SignLen(t)))

\* float(s): [sign] (nan | inf | infinity | digits [. digits] [e [sign] digits]),
\* surrounding whitespace ignored
float(s) == FloatStripped(strip(s), lower(SubSeq(strip(s), 1 + SignLen(strip(s)), Len(strip(s)))))

\* a < b and a > b on floats: every comparison with nan is False
RLess(x, y) == x.n * y.d < y.n * x.d

FloatLess(a, b) ==
  IF a.kind = "nan" \/ b.kind = "nan" THEN FALSE
  ELSE IF a.kind = "-inf" THEN b.kind # "-inf"
  ELSE IF b.kind = "inf" THEN a.kind # "inf"
  ELSE IF a.kind = "inf" \/ b.kind = "-inf" THEN FALSE
  ELSE RLess(a.q, b.q)

FloatGreater(a, b) == FloatLess(b, a)

\* a >= b and a <= b, as Python evaluates them
FloatGreaterEq(a, b) ==
  IF a.kind = "nan" \/ b.kind = "nan" THEN FALSE ELSE ~FloatLess(a, b)

FloatLessEq(a, b) == FloatGreaterEq(b, a)

(* ---------------------------------------------------------------------- *)
(* simulator.py : get_float_input                                          *)
(* ---------------------------------------------------------------------- *)

\* what happens at a prompt: a line is entered, or input() raises
Interrupts == {"KeyboardInterrupt", "EOFError"}

NoEvent == [kind |-> "none", text |-> <<>>]

LineEvent(line) == [kind |-> "line", text |-> line]

InterruptEvent(k) == [kind |-> k, text |-> <<>>]

\* an optional bound: None, or a number
None == [given |-> FALSE, value |-> NaN]

Bound(n, d) == [given |-> TRUE, value |-> Finite(Rat(n, d))]

\* lines 24-40, one pass of the while loop on what input() delivers:
\* "return" the value, "retry" after a message, or "exit" (sys.exit(0))
get_float_input(ev, min_val, max_val) ==
  IF ev.kind \in Interrupts
  THEN [outcome |-> "exit", value |-> NaN, message |-> "Exiting..."]
  ELSE
  LET parsed == float(ev.text)
  IN  IF parsed.status = "ValueError"
      THEN [outcome |-> "retry", value |-> NaN, message |-> "Please enter a valid number"]
      ELSE IF min_val.given /\ FloatLess(parsed.value, min_val.value)
      THEN [outcome |-> "retry", value |-> NaN, message |-> "Value must be at least"]
      ELSE IF max_val.given /\ FloatGreater(parsed.value, max_val.value)
      THEN [outcome |-> "retry", value |-> NaN, message |-> "Value must be at most"]
      ELSE [outcome |-> "return", value |-> parsed.value, message |-> "none"]

\* lines a user may type at a numeric prompt
FloatLines ==
  {<<"5">>, <<"0", ".", "1">>, <<"0", ".", "0", "5">>,
   <<"9", "9", ".", "9">>, <<"1", "0", "0">>, <<"2", "5", "0">>,
   <<"1", "0", "0", "0">>, <<"1", "e", "3">>, <<"-", "3">>,
   <<" ", "7", " ">>, <<"1", "_", "0">>, <<".", "5">>,
   <<"n", "a", "n">>, <<"N", "a", "N">>, <<"i", "n", "f">>,
   <<"-", "i", "n", "f">>, <<"I", "n", "f", "i", "n", "i", "t", "y">>, <<"a", "b", "c">>,
   <<>>, <<"1", "e">>, <<"0", "x", "1", "0">>,
   <<"1", ".", "2", ".", "3">>}

\* the bounds a caller may pass: none, 0.1 and 100 (those of run_simulation), 1000
MinVals == {None, Bound(1, 10), Bound(100, 1)}

MaxVals == {None, Bound(100, 1), Bound(1000, 1)}

(* ---------------------------------------------------------------------- *)
(* simulator.py : select_city, select_material, run_simulation             *)
(* ---------------------------------------------------------------------- *)

\* sorted(MeteorMaterial.get_all_materials())
materials_sorted == <<key_ice, key_iron, key_nickel_iron, key_stone>>

\* sorted(CitiesDatabase.get_all_cities()): the keys of cities.py in code-point order
cities_sorted ==
  <<<<"B", "e", "i", "j", "i", "n", "g">>,
    <<"B", "e", "r", "l", "i", "n">>,
    <<"B", "u", "e", "n", "o", "s", " ", "A", "i", "r", "e", "s">>,
    <<"C", "a", "i", "r", "o">>,
    <<"D", "u", "b", "a", "i">>,
    <<"H", "o", "n", "g", " ", "K", "o", "n", "g">>,
    <<"I", "s", "t", "a", "n", "b", "u", "l">>,
    <<"L", "o", "n", "d", "o", "n">>,
    <<"L", "o", "s", " ", "A", "n", "g", "e", "l", "e", "s">>,
    <<"M", "e", "x", "i", "c", "o", " ", "C", "i", "t", "y">>,
    <<"M", "o", "s", "c", "o", "w">>,
    <<"M", "u", "m", "b", "a", "i">>,
    <<"N", "e", "w", " ", "Y", "o", "r", "k">>,
    <<"P", "a", "r", "i", "s">>,
    <<"S", "e", "o", "u", "l">>,
    <<"S", "i", "n", "g", "a", "p", "o", "r", "e">>,
    <<"S", "y", "d", "n", "e", "y">>,
    <<"S", "ã", "o", " ", "P", "a", "u", "l", "o">>,
    <<"T", "o", "k", "y", "o">>,
    <<"T", "o", "r", "o", "n", "t", "o">>>>

\* lines 74-94 and 113-133, one pass of the while loop: the number of an
\* entry (from 1), else its name in any case; "exit" is sys.exit(0)
select_from(names_sorted, ev) ==
  IF ev.kind \in Interrupts
  THEN [outcome |-> "exit", value |-> <<>>, message |-> "Exiting..."]
  ELSE
  LET choice == strip(ev.text)
      number == int(choice)
      index == number.value - 1
      named == {i \in 1..Len(names_sorted) : lower(names_sorted[i]) = lower(choice)}
  IN  IF number.status = "ok" /\ 0 <= index /\ index < Len(names_sorted)
      THEN [outcome |-> "return", value |-> names_sorted[index + 1], message |-> "none"]
      ELSE IF named # {}
      THEN [outcome |-> "return",
            value |-> names_sorted[CHOOSE i \in named : \A j \in named : i <= j],
            message |-> "none"]
      ELSE [outcome |-> "retry", value |-> <<>>, message |-> "Invalid selection"]

\* lines 59-94
select_city(ev) == select_from(cities_sorted, ev)

\* lines 97-133
select_material(ev) == select_from(materials_sorted, ev)

\* visualization.py line 53: int(radius / scale) raises ValueError when the
\* radii are infinite (inf / inf is nan), which they are for an infinite
\* diameter or velocity
create_impact_map_raises(diameter, velocity) ==
  diameter.kind = "inf" \/ velocity.kind = "inf"

\* line 190: again = input(...).strip().lower()
again_of(line) == lower(strip(line))

\* mutant: the loop goes on after the nested simulation
after_nested_run_reprompt == "again"

\* lines 193-194: when the nested run_simulation() returns, break leaves the
\* loop and the function returns in turn
after_nested_run == "return"

\* the locals of run_simulation before anything is entered
EmptyEntry == [diameter |-> NaN, velocity |-> NaN, material |-> <<>>, city |-> <<>>]

\* lines typed at the prompts of run_simulation
DiameterLines ==
  {<<"5", "0">>, <<"0", ".", "1">>, <<"0", ".", "0", "5">>, <<"a", "b", "c">>,
   <<"n", "a", "n">>, <<"i", "n", "f">>}

VelocityLines ==
  {<<"2", "0", "0", "0", "0">>, <<"1", "0", "0">>, <<"9", "9">>, <<>>, <<"i", "n", "f">>}

MaterialLines ==
  {<<"1">>, <<"2">>, <<"5">>, <<"0">>, <<"S", "T", "O", "N", "E">>, <<"w", "o", "o", "d">>}

CityLines ==
  {<<"8">>, <<"2", "0">>, <<"2", "1">>, <<"t", "o", "k", "y", "o">>,
   <<"A", "t", "l", "a", "n", "t", "i", "s">>, <<>>}

AgainLines ==
  {<<"y">>, <<"y", "e", "s">>, <<"Y">>, <<" ", "Y", "e", "s", " ">>, <<"n">>, <<"n", "o">>,
   <<"N", "O">>, <<>>, <<"m", "a", "y", "b", "e">>, <<"y", "e", "s", "!">>}

\* what can happen at a prompt: one of its lines, or an interrupt
Events(lines) == {LineEvent(l) : l \in lines} \cup {InterruptEvent(k) : k \in Interrupts}

\* the event with the prompt it answered
At(prompt, ev) == [prompt |-> prompt, kind |-> ev.kind, text |-> ev.text]

\* lines 193-194 call run_simulation from inside run_simulation, so every y
\* answer adds a frame to the interpreter's stack.  MaxDepth is the number of
\* run_simulation frames that still have room for their own calls (995 under
\* CPython 3.11's default recursion limit of 1000); in the frame after these
\* get_float_input still runs, and select_material, whose line 99 calls on
\* into get_all_materials, raises RecursionError, which nothing catches.
MaxDepth == 3

\* line 158 at this depth of run_simulation: the prompt, or the RecursionError
select_material_entered(d) == IF d > MaxDepth THEN "crash" ELSE "material"

(* ---------------------------------------------------------------------- *)
(* State machine                                                           *)
(*                                                                         *)
(* Every function is pure: a caller calls one with inputs of its choice    *)
(* (call, ret hold the call and what it returned or raised), may pass the  *)
(* destruction zones an engine returned on to calculate_casualties, and    *)
(* then drops the result.                                                  *)
(* ---------------------------------------------------------------------- *)

Idle == call.op = "none"

\* no get_float_input call and no CLI session in progress
NoPrompt ==
  /\ gfi = [min_val |-> None, max_val |-> None, state |-> "idle", value |-> NaN,
            message |-> "none", event |-> NoEvent]
  /\ pc = "idle"
  /\ depth = 0
  /\ entry = EmptyEntry
  /\ event = At("none", NoEvent)
  /\ simulations = 0
  /\ yes = 0

Init ==
  /\ call = [op |-> "none"]
  /\ ret = [status |-> "none"]
  /\ NoPrompt

CalcMeteorImpact ==
  /\ Idle
  /\ \E a \in ImpactInputs :
       /\ call' = [op |-> "calculate_meteor_impact", args |-> a]
       /\ ret' = ImpactOf(a)
  /\ UNCHANGED <<gfi, cliVars>>

\* the crater block of calculate_meteor_impact, bit for bit
CalcCraterDimensions ==
  /\ Idle
  /\ \E a \in CraterInputs :
       /\ call' = [op |-> "crater_dimensions", args |-> a]
       /\ ret' = [status |-> "ok",
                  value |-> [crater_exact |->
                    crater_dimensions(
                      crater_diameter_double(a.diameter_m, a.velocity_ms, a.angle_deg))]]
  /\ UNCHANGED <<gfi, cliVars>>

\* the int returned is held as the one-field record [density |-> n]
GetDensity ==
  /\ Idle
  /\ \E name \in MaterialNames :
       /\ call' = [op |-> "get_density", args |-> [material_type |-> name]]
       /\ ret' = [status |-> "ok", value |-> [density |-> get_density(name)]]
  /\ UNCHANGED <<gfi, cliVars>>

CalcDestructionRadius ==
  /\ Idle
  /\ \E e \in Energies :
       /\ call' = [op |-> "calculate_destruction_radius",
                   args |-> [energy_joules |-> e]]
       /\ ret' = calculate_destruction_radius(e)
  /\ UNCHANGED <<gfi, cliVars>>

CalcImpactEffects ==
  /\ Idle
  /\ \E a \in EffectInputs :
       /\ call' = [op |-> "calculate_impact_effects", args |-> a]
       /\ ret' = calculate_impact_effects(a.diameter, a.velocity, a.material)
  /\ UNCHANGED <<gfi, cliVars>>

\* calculate_casualties on a zone record the caller made up
CalcCasualties ==
  /\ Idle
  /\ \E z \in ZoneRecords, density \in CityDensities :
       /\ call' = [op |-> "calculate_casualties",
                   args |-> [destruction_zones |-> z, city_density |-> density,
                             from |-> "caller"]]
       /\ ret' = calculate_casualties(AsRadii(z), RInt(density))
  /\ UNCHANGED <<gfi, cliVars>>

EngineOps == {"calculate_meteor_impact", "calculate_impact_effects"}

\* calculate_casualties on result['destruction_zones'] of the engine call
\* that has just returned (the argument is recorded as engine_zones)
CalcCasualtiesOfEngine ==
  /\ call.op \in EngineOps
  /\ ret.status = "ok"
  /\ InKmRange(ret.value.destruction_zones)
  /\ \E density \in CityDensities :
       LET zones == ret.value.destruction_zones
       IN  /\ call' = [op |-> "calculate_casualties",
                       args |-> [engine_zones |-> zones,
                                 city_density |-> density, from |-> call.op]]
           /\ ret' = calculate_casualties([k \in DOMAIN zones |-> KmOf(zones[k])],
                                          RInt(density))
  /\ UNCHANGED <<gfi, cliVars>>

\* the caller is done with the result
Discard ==
  /\ ~Idle
  /\ call' = [op |-> "none"]
  /\ ret' = [status |-> "none"]
  /\ UNCHANGED <<gfi, cliVars>>

Next ==
  \/ CalcMeteorImpact
  \/ CalcCraterDimensions
  \/ GetDensity
  \/ CalcDestructionRadius
  \/ CalcImpactEffects
  \/ CalcCasualties
  \/ CalcCasualtiesOfEngine
  \/ Discard

Spec == Init /\ [][Next]_vars

(* ---------------------------------------------------------------------- *)
(* State machine of one get_float_input call                               *)
(*                                                                         *)
(* gfi holds the arguments, whether the call is still prompting, has       *)
(* returned (and what) or has left through sys.exit, the last message      *)
(* printed and what the last input() delivered.                            *)
(* ---------------------------------------------------------------------- *)

InitInput ==
  /\ call = [op |-> "none"]
  /\ ret = [status |-> "none"]
  /\ gfi \in {[min_val |-> lo, max_val |-> hi, state |-> "prompt", value |-> NaN,
               message |-> "none", event |-> NoEvent] : lo \in MinVals, hi \in MaxVals}
  /\ pc = "idle"
  /\ depth = 0
  /\ entry = EmptyEntry
  /\ event = At("none", NoEvent)
  /\ simulations = 0
  /\ yes = 0

\* the outcome of one pass of the loop on the state of the call
AfterInput(ev) ==
  LET r == get_float_input(ev, gfi.min_val, gfi.max_val)
  IN  [gfi EXCEPT !.state = CASE r.outcome = "return" -> "returned"
                              [] r.outcome = "retry" -> "prompt"
                              [] r.outcome = "exit" -> "exited",
                  !.value = r.value,
                  !.message = r.message,
                  !.event = ev]

\* a line is entered at the prompt
InputLine ==
  /\ gfi.state = "prompt"
  /\ \E line \in FloatLines : gfi' = AfterInput(LineEvent(line))
  /\ UNCHANGED <<engineVars, cliVars>>

\* input() raises KeyboardInterrupt or EOFError
InputInterrupt ==
  /\ gfi.state = "prompt"
  /\ \E k \in Interrupts : gfi' = AfterInput(InterruptEvent(k))
  /\ UNCHANGED <<engineVars, cliVars>>

NextInput ==
  \/ InputLine
  \/ InputInterrupt

SpecInput == InitInput /\ [][NextInput]_vars

(* ---------------------------------------------------------------------- *)
(* State machine of a CLI session: main and run_simulation                 *)
(*                                                                         *)
(* pc is the prompt or step the innermost run_simulation is at, depth the  *)
(* number of run_simulation frames on the stack, entry the locals of the   *)
(* innermost frame, event what the last input() delivered and at which     *)
(* prompt; simulations counts the simulations shown in full and yes the    *)
(* y/yes answers.  "exit" is the process left by sys.exit(0), "crash" by   *)
(* an exception nothing catches, "done" main returned.                     *)
(* ---------------------------------------------------------------------- *)

\* main() has called run_simulation(), which prompts for the diameter
InitCli ==
  /\ call = [op |-> "none"]
  /\ ret = [status |-> "none"]
  /\ gfi = [min_val |-> None, max_val |-> None, state |-> "idle", value |-> NaN,
            message |-> "none", event |-> NoEvent]
  /\ pc = "diameter"
  /\ depth = 1
  /\ entry = EmptyEntry
  /\ event = At("none", NoEvent)
  /\ simulations = 0
  /\ yes = 0

\* where an input helper leaves run_simulation: on with the next step, at the
\* same prompt again, or out of the process
PcAfter(outcome, next) ==
  CASE outcome = "return" -> next
    [] outcome = "retry" -> pc
    [] outcome = "exit" -> "exit"

\* lines 148-151: diameter = get_float_input(..., min_val=0.1)
EnterDiameter ==
  /\ pc = "diameter"
  /\ \E ev \in Events(DiameterLines) :
       LET r == get_float_input(ev, Bound(1, 10), None)
       IN  /\ event' = At("diameter", ev)
           /\ pc' = PcAfter(r.outcome, "velocity")
           /\ entry' = IF r.outcome = "return"
                       THEN [entry EXCEPT !.diameter = r.value] ELSE entry
  /\ UNCHANGED <<engineVars, gfi, depth, simulations, yes>>

\* lines 153-158: velocity = get_float_input(..., min_val=100), and on to
\* the call of select_material
EnterVelocity ==
  /\ pc = "velocity"
  /\ \E ev \in Events(VelocityLines) :
       LET r == get_float_input(ev, Bound(100, 1), None)
       IN  /\ event' = At("velocity", ev)
           /\ pc' = PcAfter(r.outcome, select_material_entered(depth))
           /\ entry' = IF r.outcome = "return"
                       THEN [entry EXCEPT !.velocity = r.value] ELSE entry
  /\ UNCHANGED <<engineVars, gfi, depth, simulations, yes>>

\* line 158: material = select_material()
SelectMaterial ==
  /\ pc = "material"
  /\ \E ev \in Events(MaterialLines) :
       LET r == select_material(ev)
       IN  /\ event' = At("material", ev)
           /\ pc' = PcAfter(r.outcome, "city")
           /\ entry' = IF r.outcome = "return"
                       THEN [entry EXCEPT !.material = r.value] ELSE entry
  /\ UNCHANGED <<engineVars, gfi, depth, simulations, yes>>

\* line 161: city_name = select_city()
SelectCity ==
  /\ pc = "city"
  /\ \E ev \in Events(CityLines) :
       LET r == select_city(ev)
       IN  /\ event' = At("city", ev)
           /\ pc' = PcAfter(r.outcome, "calculate")
           /\ entry' = IF r.outcome = "return"
                       THEN [entry EXCEPT !.city = r.value] ELSE entry
  /\ UNCHANGED <<engineVars, gfi, depth, simulations, yes>>

\* lines 162-175: the city record, calculate_impact_effects and the two
\* summaries (none of them raises for the numbers of the model)
Calculate ==
  /\ pc = "calculate"
  /\ pc' = "visualize"
  /\ UNCHANGED <<engineVars, gfi, depth, entry, event, simulations, yes>>

\* lines 181-184: create_impact_map and its print; the simulation is complete
\* (line 53 of visualization.py raises ValueError for an infinite radius)
Visualize ==
  /\ pc = "visualize"
  /\ IF create_impact_map_raises(entry.diameter, entry.velocity)
     THEN pc' = "crash" /\ UNCHANGED simulations
     ELSE pc' = "again" /\ simulations' = simulations + 1
  /\ UNCHANGED <<engineVars, gfi, depth, entry, event, yes>>

\* lines 188-203: one pass of the run-again loop.  y/yes calls run_simulation
\* (a new frame with fresh locals), n/no and an interrupt break out of the
\* loop, anything else prompts again.
AnswerAgain ==
  /\ pc = "again"
  /\ \E ev \in Events(AgainLines) :
       LET again == again_of(ev.text)
           runs == ev.kind = "line" /\ again \in {<<"y">>, <<"y", "e", "s">>}
           stops == ev.kind = "line" /\ again \in {<<"n">>, <<"n", "o">>}
       IN  /\ event' = At("again", ev)
           /\ pc' = IF runs THEN "diameter"
                    ELSE IF stops \/ ev.kind \in Interrupts THEN "return"
                    ELSE "again"
           /\ depth' = IF runs THEN depth + 1 ELSE depth
           /\ yes' = IF runs THEN yes + 1 ELSE yes
           /\ entry' = IF runs THEN EmptyEntry ELSE entry
  /\ UNCHANGED <<engineVars, gfi, simulations>>

\* run_simulation returns: to the run-again loop of the frame below, which
\* breaks and returns in turn, or to main
Return ==
  /\ pc = "return"
  /\ depth' = depth - 1
  /\ pc' = IF depth > 1 THEN after_nested_run ELSE "done"
  /\ entry' = EmptyEntry
  /\ UNCHANGED <<engineVars, gfi, event, simulations, yes>>

NextCli ==
  \/ EnterDiameter
  \/ EnterVelocity
  \/ SelectMaterial
  \/ SelectCity
  \/ Calculate
  \/ Visualize
  \/ AnswerAgain
  \/ Return

SpecCli == InitCli /\ [][NextCli]_vars

(* ---------------------------------------------------------------------- *)
(* Properties                                                              *)
(* ---------------------------------------------------------------------- *)

IsCall(op) == call.op = op

CasualtyCounts(v) ==
  {v.deaths_by_zone[z] : z \in ZoneNames}
  \cup {v.injuries_by_zone[z] : z \in ZoneNames}
  \cup {v.total_deaths, v.total_injuries, v.total_affected}

\* the zone record of the call is nested: fireball <= total_destruction <=
\* severe_damage <= moderate_damage <= light_damage
NestedArgs ==
  IF call.args.from = "caller"
  THEN LET z == call.args.destruction_zones
       IN  \A i \in 1..4 : z[ZoneOrder[i]] <= z[ZoneOrder[i + 1]]
  ELSE LET z == call.args.engine_zones
       IN  /\ ZoneNames \subseteq DOMAIN z
           /\ \A i \in 1..4 : LessEq(z[ZoneOrder[i]], z[ZoneOrder[i + 1]])

\* C1 (as claimed): for every zone record, nested or not, and every density
\* >= 0, no entry of deaths_by_zone or injuries_by_zone and none of the three
\* totals returned by calculate_casualties is negative.
C1_NoNegativeCounts ==
  (IsCall("calculate_casualties") /\ ret.status = "ok" /\ call.args.city_density >= 0)
    => \A c \in CasualtyCounts(ret.value) : c >= 0

ImpactOk == IsCall("calculate_meteor_impact") /\ ret.status = "ok"

EnergyMt == ret.value.energy.kinetic_energy_megatons

Severity == ret.value.assessment.severity

\* C3 (as claimed): an energy of exactly 1, 100, 10000, 1e8 megatons is
\* classified into the lower bucket: minor, significant, catastrophic,
\* extinction-level.
C3_BoundaryLowerBucket ==
  ImpactOk =>
    /\ EnergyMt = Pos(0) => Severity = "minor"
    /\ EnergyMt = Pos(2000) => Severity = "significant"
    /\ EnergyMt = Pos(4000) => Severity = "catastrophic"
    /\ EnergyMt = Pos(8000) => Severity = "extinction-level"

\* C3 (amended): an energy of exactly 1, 100, 10000, 1e8 megatons is
\* classified into the upper bucket: significant, catastrophic,
\* extinction-level, planet-killer.
C3_BoundaryUpperBucket ==
  ImpactOk =>
    /\ EnergyMt = Pos(0) => Severity = "significant"
    /\ EnergyMt = Pos(2000) => Severity = "catastrophic"
    /\ EnergyMt = Pos(4000) => Severity = "extinction-level"
    /\ EnergyMt = Pos(8000) => Severity = "planet-killer"

\* an impact of exactly 100 megatons
C3_Witness ==
  ImpactOk /\ EnergyMt = Pos(2000) /\ Severity = "catastrophic"

NonPositive(x) == x.sg <= 0

\* the call is an engine call with a non-positive diameter, velocity or density
InvalidEngineArgs ==
  \/ /\ IsCall("calculate_meteor_impact")
     /\ \/ NonPositive(call.args.meteor_diameter)
        \/ NonPositive(call.args.meteor_velocity)
        \/ NonPositive(call.args.meteor_density)
  \/ /\ IsCall("calculate_impact_effects")
     /\ \/ NonPositive(call.args.diameter)
        \/ NonPositive(call.args.velocity)

\* C4 (as claimed): an engine call with a non-positive diameter, velocity or
\* density fails with InvalidParameter, and every other engine call returns
\* a result; no other exception is raised.
C4_ValidatesBeforeComputing ==
  call.op \in EngineOps =>
    IF InvalidEngineArgs THEN ret.status = "InvalidParameter" ELSE ret.status = "ok"

Zones == ret.value.destruction_zones

ExpectedDensity(name) ==
  IF name \in {key_iron, <<"I", "R", "O", "N">>, <<"I", "r", "o", "n">>} THEN 7870
  ELSE IF name \in {key_ice, <<"I", "C", "E">>} THEN 917
  ELSE IF name \in {key_nickel_iron,
                    <<"N", "i", "c", "k", "e", "l", "_", "I", "r", "o", "n">>} THEN 8000
  ELSE 3300

\* C7: get_density returns, without error, the density of the entry whose key
\* is the lower-cased name (iron 7870, stone 3300, ice 917, nickel_iron 8000)
\* and 3300 for every name whose lower-cased form is not a key; the density
\* calculate_impact_effects reports for its material is the same.
C7_DensityLookup ==
  /\ IsCall("get_density") =>
       (ret.status = "ok" /\ ret.value.density = ExpectedDensity(call.args.material_type))
  /\ (IsCall("calculate_impact_effects") /\ ret.status = "ok") =>
       ret.value.density_kgm3 = ExpectedDensity(call.args.material)

\* get_density("IRON")
C7_Witness ==
  /\ IsCall("get_density")
  /\ call.args.material_type = <<"I", "R", "O", "N">>
  /\ ret.value.density = 7870

SeverityRank(sev) ==
  CASE sev = "minor" -> 1
    [] sev = "significant" -> 2
    [] sev = "catastrophic" -> 3
    [] sev = "extinction-level" -> 4
    [] sev = "planet-killer" -> 5

SeverityLabels ==
  {"minor", "significant", "catastrophic", "extinction-level", "planet-killer"}

PlanetKillerExample == ImpactArgs(Pos(5000), Pos(4301), Pos(3477), 90, "ocean", 0)

\* C8: every energy >= 0 gets exactly one of the five labels, the label is
\* monotonic in the energy (compared with every other impact the model can
\* compute), and the 100 km impactor at 90 degrees is a planet-killer.
C8_SeverityTotalMonotonic ==
  (ImpactOk /\ EnergyMt.sg >= 0) =>
    /\ Severity \in SeverityLabels
    /\ \A a \in ImpactInputs :
         LET other == ImpactOf(a)
         IN  (/\ other.status = "ok"
              /\ other.value.energy.kinetic_energy_megatons.sg >= 0
              /\ LessEq(EnergyMt, other.value.energy.kinetic_energy_megatons))
             => SeverityRank(Severity) <= SeverityRank(other.value.assessment.severity)
    /\ call.args = PlanetKillerExample => Severity = "planet-killer"

\* the 100 km impactor
C8_Witness ==
  ImpactOk /\ call.args = PlanetKillerExample /\ Severity = "planet-killer"

\* C9 (as claimed): the destruction_zones record of either engine is accepted
\* by calculate_casualties, which returns deaths and injuries for all five
\* zones.
C9_EngineZonesAccepted ==
  (IsCall("calculate_casualties") /\ call.args.from \in EngineOps) =>
    /\ ret.status = "ok"
    /\ DOMAIN ret.value.deaths_by_zone = ZoneNames
    /\ DOMAIN ret.value.injuries_by_zone = ZoneNames

\* C10: the stratospheric dust mass is the ejected dust mass times 0.01 for
\* E < 100, times 0.1 for 100 <= E <= 10000, times 0.3 for E > 10000.
C10_StratosphereFraction ==
  ImpactOk =>
    LET fraction ==
          IF Less(EnergyMt, Pos(2000)) THEN Pos(-2000)
          ELSE IF LessEq(EnergyMt, Pos(4000)) THEN Pos(-1000)
          ELSE Pos(-523)
    IN  ret.value.dust_effects.stratosphere_dust_mass_kg =
          Mul(ret.value.dust_effects.dust_ejected_mass_kg, fraction)

\* an impact of exactly 10000 megatons that ejects dust
C10_Witness ==
  /\ ImpactOk
  /\ EnergyMt = Pos(4000)
  /\ ret.value.dust_effects.dust_ejected_mass_kg.sg = 1
  /\ ret.value.dust_effects.stratosphere_dust_mass_kg =
       Mul(ret.value.dust_effects.dust_ejected_mass_kg, Pos(-1000))

Dust == ret.value.dust_effects

\* C11: coverage and hemisphere of calculate_meteor_impact: E < 100 gives
\* E*10000 and regional; 100 <= E < 10000 gives E*50000 and northern when
\* the latitude is > 0, southern otherwise (latitude 0 included); E >= 10000
\* gives 510000000 and global.  The label is one of the four, and
\* is_global_catastrophe holds exactly when the label is global.
C11_CoverageAndHemisphere ==
  ImpactOk =>
    LET E == EnergyMt
        lat == call.args.impact_latitude
    IN  /\ Less(E, Pos(2000)) =>
             /\ Dust.dust_cloud_coverage_km2 = Mul(E, Pos(4000))
             /\ Dust.affected_hemisphere = "regional"
        /\ (LessEq(Pos(2000), E) /\ Less(E, Pos(4000))) =>
             /\ Dust.dust_cloud_coverage_km2 = Mul(E, Pos(4699))
             /\ lat > 0 => Dust.affected_hemisphere = "northern"
             /\ lat <= 0 => Dust.affected_hemisphere = "southern"
        /\ LessEq(Pos(4000), E) =>
             /\ Dust.dust_cloud_coverage_km2 = Pos(8708)
             /\ Dust.affected_hemisphere = "global"
        /\ Dust.affected_hemisphere \in {"regional", "northern", "southern", "global"}
        /\ ret.value.assessment.is_global_catastrophe
             <=> (Dust.affected_hemisphere = "global")

\* an impact of exactly 100 megatons on the equator: southern, not global
C11_Witness ==
  /\ ImpactOk
  /\ EnergyMt = Pos(2000)
  /\ call.args.impact_latitude = 0
  /\ Dust.affected_hemisphere = "southern"
  /\ Dust.dust_cloud_coverage_km2 = Pos(6699)
  /\ ~ret.value.assessment.is_global_catastrophe

DustMass == Dust.stratosphere_dust_mass_kg

Winter == Dust.impact_winter_duration_years

\* C12: the impact-winter duration (in thousandths of a year) is 0 for
\* S < 1e12, 0.5 for 1e12 <= S < 1e14, 2.0 for 1e14 <= S < 1e15 and
\* 5.0 + log10(S/1e15) >= 5.0 for S >= 1e15, a value on a threshold taking the
\* upper branch; and it is non-decreasing in S (compared with every other
\* impact the model can compute).
C12_WinterDurationSteps ==
  ImpactOk =>
    /\ Less(DustMass, Pos(12000)) => Winter = 0
    /\ (LessEq(Pos(12000), DustMass) /\ Less(DustMass, Pos(14000))) => Winter = 500
    /\ (LessEq(Pos(14000), DustMass) /\ Less(DustMass, Pos(15000))) => Winter = 2000
    /\ LessEq(Pos(15000), DustMass) =>
         /\ Winter = 5000 + (DustMass.lg - 15000)
         /\ Winter >= 5000
    /\ \A a \in ImpactInputs :
         LET other == ImpactOf(a)
         IN  (/\ other.status = "ok"
              /\ LessEq(DustMass, other.value.dust_effects.stratosphere_dust_mass_kg))
             => Winter <= other.value.dust_effects.impact_winter_duration_years

\* a dust mass of exactly 1e15 kg: 5.0 years, not 2.0
C12_Witness ==
  ImpactOk /\ DustMass = Pos(15000) /\ Winter = 5000

Crater == ret.value.crater

CraterExact == ret.value.crater_exact

\* crater.volume_km3 = (pi/3) * (diameter/2)^2 * depth / 1e9, diameter and
\* depth being the returned ones in metres
VolumeFromDimensions ==
  Crater.volume_km3 =
    Div(Mul(Mul(Div(Pos(497), Pos(477)),
                PowInt(Div(Mul(Crater.diameter_km, Pos(3000)), Pos(301)), 2)),
            Mul(Crater.depth_km, Pos(3000))),
        Pos(9000))

\* a and b are at most n doubles apart
RECURSIVE WithinUlps(_, _, _)
WithinUlps(a, b, n) ==
  \/ a = b
  \/ n > 0 /\ (WithinUlps(NextUp(a), b, n - 1) \/ WithinUlps(a, NextUp(b), n - 1))

\* C13 (as claimed): for every input that returns, crater.depth_km equals
\* crater.diameter_km / 5 exactly (to the last bit of the double), and
\* crater.volume_km3 is (pi/3) * (diameter/2)^2 * depth of the same crater.
C13_DepthExactlyFifth ==
  /\ ImpactOk => (Crater.depth_km = Div(Crater.diameter_km, Pos(699)) /\ VolumeFromDimensions)
  /\ IsCall("crater_dimensions") =>
       CraterExact.depth_km = DivDouble(CraterExact.diameter_km, 5)

\* C13 (amended): crater.depth_km equals crater.diameter_km / 5 up to the
\* rounding of the two divisions (at most 2 units in the last place), and
\* crater.volume_km3 is (pi/3) * (diameter/2)^2 * depth of the same crater.
C13_DepthFifthUpToRounding ==
  /\ ImpactOk => (Crater.depth_km = Div(Crater.diameter_km, Pos(699)) /\ VolumeFromDimensions)
  /\ IsCall("crater_dimensions") =>
       WithinUlps(CraterExact.depth_km, DivDouble(CraterExact.diameter_km, 5), 2)

\* the 238 m impactor at 30 degrees: depth_km is two doubles above diameter_km / 5
C13_Witness ==
  /\ IsCall("crater_dimensions")
  /\ call.args.diameter_m = 238
  /\ CraterExact.depth_km # DivDouble(CraterExact.diameter_km, 5)
  /\ CraterExact.depth_km = NextUp(NextUp(DivDouble(CraterExact.diameter_km, 5)))

\* d, v and rho of the call, and the mass and kinetic energy returned, for
\* either engine
PhysArgs(op, args) ==
  IF op = "calculate_meteor_impact"
  THEN [d |-> args.meteor_diameter, v |-> args.meteor_velocity, rho |-> args.meteor_density]
  ELSE [d |-> args.diameter, v |-> args.velocity, rho |-> Float(get_density(args.material))]

PhysResult(op, r) ==
  IF op = "calculate_meteor_impact"
  THEN [mass |-> r.value.input.meteor_mass_kg, energy |-> r.value.energy.kinetic_energy_joules]
  ELSE [mass |-> r.value.mass_kg, energy |-> r.value.energy_joules]

AllPositive(p) == p.d.sg = 1 /\ p.v.sg = 1 /\ p.rho.sg = 1

\* between 1e-50 and 1e50: no product of the mass and energy formulas leaves
\* the range of the normal doubles
InNormalRange(p) == \A x \in {p.d, p.v, p.rho} : x.lg >= -50000 /\ x.lg <= 50000

InDomain(p, restricted) == restricted => InNormalRange(p)

\* the same call on every input of the model, as <<arguments, result>>
OtherCalls ==
  IF IsCall("calculate_meteor_impact")
  THEN {<<PhysArgs(call.op, a), ImpactOf(a)>> : a \in ImpactInputs}
  ELSE {<<PhysArgs(call.op, a), calculate_impact_effects(a.diameter, a.velocity, a.material)>> :
           a \in EffectInputs}

\* q is p with exactly one of diameter, velocity, density increased
OneIncreased(p, q) ==
  \/ Less(p.d, q.d) /\ p.v = q.v /\ p.rho = q.rho
  \/ p.d = q.d /\ Less(p.v, q.v) /\ p.rho = q.rho
  \/ p.d = q.d /\ p.v = q.v /\ Less(p.rho, q.rho)

\* mass and energy positive, and strictly increasing towards every other call
\* of the model that has one argument increased
PositiveAndMonotonic(restricted) ==
  (call.op \in EngineOps /\ AllPositive(PhysArgs(call.op, call.args))
     /\ InDomain(PhysArgs(call.op, call.args), restricted)) =>
    /\ ret.status = "ok"
    /\ Less(Zero, PhysResult(call.op, ret).mass)
    /\ Less(Zero, PhysResult(call.op, ret).energy)
    /\ \A o \in OtherCalls :
         (InDomain(o[1], restricted) /\ OneIncreased(PhysArgs(call.op, call.args), o[1])) =>
           /\ o[2].status = "ok"
           /\ Less(PhysResult(call.op, ret).energy, PhysResult(call.op, o[2]).energy)
           /\ Less(PhysArgs(call.op, call.args).rho, o[1].rho) =>
                Less(PhysResult(call.op, ret).mass, PhysResult(call.op, o[2]).mass)

\* C14 (as claimed): for all diameter, velocity, density > 0 both engines
\* return mass > 0 and kinetic energy > 0, and increasing one of the three
\* with the other two fixed strictly increases the energy (a denser material
\* strictly increases the mass).
C14_PositiveStrictlyMonotonic == PositiveAndMonotonic(FALSE)

\* C14 (amended): the same for diameter, velocity and density between 1e-50
\* and 1e50, where no intermediate result underflows or overflows.
C14_PositiveMonotonicInRange == PositiveAndMonotonic(TRUE)

\* calculate_impact_effects on a 10 m stone at 15 km/s: positive mass and
\* energy, and iron at the same size and speed is heavier
C14_Witness ==
  /\ IsCall("calculate_impact_effects")
  /\ call.args.diameter = Pos(1000)
  /\ call.args.velocity = Pos(4176)
  /\ call.args.material = key_stone
  /\ ret.status = "ok"
  /\ Less(Zero, ret.value.mass_kg)
  /\ Less(ret.value.mass_kg,
          calculate_impact_effects(Pos(1000), Pos(4176), key_iron).value.mass_kg)

\* the target density the claim gives for a surface type
ClaimedTargetDensity(surface) ==
  CASE surface = "ocean" -> Pos(3011)                   \* 1025
    [] surface = "ice" -> Pos(2962)                     \* 917
    [] OTHER -> Pos(3398)                               \* 2500

\* C15: the dust mass is the ejecta volume (30 times the crater volume) times
\* a target density of 1025 for ocean, 917 for ice and 2500 for land, desert
\* and any other surface type; an unknown surface type raises nothing; and
\* two calls that differ only in the meteor density eject the same dust mass.
C15_TargetDensityTotal ==
  IsCall("calculate_meteor_impact") =>
    /\ ret.status = "ok" =>
         Dust.dust_ejected_mass_kg =
           Mul(Mul(Mul(Crater.volume_km3, Pos(9000)), Pos(1477)),
               ClaimedTargetDensity(call.args.target_surface_type))
    /\ (/\ call.args.target_surface_type \notin {"land", "ocean", "desert", "ice"}
        /\ call.args.meteor_diameter.sg = 1
        /\ call.args.meteor_velocity.sg = 1) => ret.status = "ok"
    /\ ret.status = "ok" =>
         \A a \in ImpactInputs :
           [a EXCEPT !.meteor_density = call.args.meteor_density] = call.args
             => ImpactOf(a).value.dust_effects.dust_ejected_mass_kg
                  = Dust.dust_ejected_mass_kg

\* an impact on an unknown surface: dust of density 2500 (10^12.5 kg here,
\* against 10^12.064 kg on ice)
C15_Witness ==
  /\ ImpactOk
  /\ call.args.target_surface_type = "lava"
  /\ call.args.meteor_diameter = Pos(3500)
  /\ call.args.meteor_velocity = Pos(4000)
  /\ call.args.impact_angle = 90
  /\ Crater.volume_km3.sg = 1
  /\ Dust.dust_ejected_mass_kg =
       Mul(Mul(Mul(Crater.volume_km3, Pos(9000)), Pos(1477)), Pos(3398))

\* what the claim says does not depend on the angle
AngleIndependentPart(v) ==
  [mass |-> v.input.meteor_mass_kg,
   energy |-> v.energy.kinetic_energy_joules,
   fireball |-> v.energy.fireball_radius_km,
   zones |-> v.destruction_zones,
   coverage |-> v.dust_effects.dust_cloud_coverage_km2,
   severity |-> v.assessment.severity]

\* C16: for impact_angle = 0 and diameter, velocity, density > 0 the call
\* returns; crater diameter, depth and volume, ejected and stratospheric dust
\* mass, winter duration and temperature drop are 0; and mass, energy,
\* fireball radius, the four zone radii, dust coverage and severity are those
\* of the same call at any other angle.
C16_GrazingImpact ==
  (/\ IsCall("calculate_meteor_impact")
   /\ call.args.impact_angle = 0
   /\ call.args.meteor_diameter.sg = 1
   /\ call.args.meteor_velocity.sg = 1
   /\ call.args.meteor_density.sg = 1) =>
    /\ ret.status = "ok"
    /\ Crater = [diameter_km |-> Zero, depth_km |-> Zero, volume_km3 |-> Zero]
    /\ Dust.dust_ejected_mass_kg = Zero
    /\ Dust.stratosphere_dust_mass_kg = Zero
    /\ Dust.impact_winter_duration_years = 0
    /\ Dust.global_temperature_drop_celsius = 0
    /\ \A a \in ImpactInputs :
         [a EXCEPT !.impact_angle = 0] = call.args =>
           /\ ImpactOf(a).status = "ok"
           /\ AngleIndependentPart(ImpactOf(a).value) = AngleIndependentPart(ret.value)

\* a grazing 3 km body at 10 km/s: no crater, the zones of the vertical impact
C16_Witness ==
  /\ ImpactOk
  /\ call.args.impact_angle = 0
  /\ call.args.meteor_diameter = Pos(3500)
  /\ call.args.meteor_velocity = Pos(4000)
  /\ Crater.diameter_km = Zero
  /\ Zones.light_damage_km.sg = 1
  /\ Zones = ImpactOf([call.args EXCEPT !.impact_angle = 90]).value.destruction_zones
  /\ ImpactOf([call.args EXCEPT !.impact_angle = 90]).value.crater.diameter_km.sg = 1

\* the radii and the density of the call, as the numbers the function computes with
CasualtyRadii ==
  IF call.args.from = "caller"
  THEN AsRadii(call.args.destruction_zones)
  ELSE [k \in DOMAIN call.args.engine_zones |-> KmOf(call.args.engine_zones[k])]

\* the rate table of the claim, in percent: <<mortality, injury>>
ClaimedRates ==
  [fireball |-> <<100, 0>>, total_destruction |-> <<98, 95>>,
   severe_damage |-> <<70, 85>>, moderate_damage |-> <<30, 60>>,
   light_damage |-> <<5, 40>>]

\* population of zone i: pi * (outer^2 - inner^2) * density
ClaimedPopulation(i) ==
  LET outer == CasualtyRadii[ZoneOrder[i]]
      inner == IF i = 1 THEN RInt(0) ELSE CasualtyRadii[ZoneOrder[i - 1]]
  IN  RMul(RMul(Pi, RSub(RMul(outer, outer), RMul(inner, inner))),
           RInt(call.args.city_density))

\* C17: each deaths_by_zone entry is trunc(area * density * mortality), each
\* injuries_by_zone entry is trunc((population - deaths) * injury rate) with
\* the fixed rate table, total_deaths and total_injuries are the sums of the
\* five truncated entries, and the fireball zone has 0 injuries.
C17_TruncatePerZoneThenSum ==
  (IsCall("calculate_casualties") /\ ret.status = "ok") =>
    LET v == ret.value
        deaths(i) == RMul(ClaimedPopulation(i), Rat(ClaimedRates[ZoneOrder[i]][1], 100))
        injuries(i) ==
          RMul(RSub(ClaimedPopulation(i), deaths(i)), Rat(ClaimedRates[ZoneOrder[i]][2], 100))
    IN  /\ \A i \in 1..5 :
             /\ v.deaths_by_zone[ZoneOrder[i]] = RTrunc(deaths(i))
             /\ v.injuries_by_zone[ZoneOrder[i]] = RTrunc(injuries(i))
        /\ v.total_deaths =
             v.deaths_by_zone.fireball + v.deaths_by_zone.total_destruction
             + v.deaths_by_zone.severe_damage + v.deaths_by_zone.moderate_damage
             + v.deaths_by_zone.light_damage
        /\ v.total_injuries =
             v.injuries_by_zone.fireball + v.injuries_by_zone.total_destruction
             + v.injuries_by_zone.severe_damage + v.injuries_by_zone.moderate_damage
             + v.injuries_by_zone.light_damage
        /\ v.injuries_by_zone.fireball = 0

\* radii 0, 0, 1, 2, 2 km at 1 person per km2: 2.199 and 2.827 deaths are
\* counted as 2 + 2 = 4 (the untruncated sum is 5.03), 3.958 injuries as 3
C17_Witness ==
  /\ IsCall("calculate_casualties")
  /\ call.args.from = "caller"
  /\ call.args.city_density = 1
  /\ call.args.destruction_zones =
       [fireball |-> 0, total_destruction |-> 0, severe_damage |-> 1,
        moderate_damage |-> 2, light_damage |-> 2]
  /\ ret.status = "ok"
  /\ ret.value.deaths_by_zone =
       [fireball |-> 0, total_destruction |-> 0, severe_damage |-> 2,
        moderate_damage |-> 2, light_damage |-> 0]
  /\ ret.value.total_deaths = 4
  /\ ret.value.total_injuries = 3

\* value >= min_val when min_val is given and value <= max_val when max_val is given
WithinBounds(value, min_val, max_val) ==
  /\ min_val.given => FloatGreaterEq(value, min_val.value)
  /\ max_val.given => FloatLessEq(value, max_val.value)

\* C18 (as claimed): whatever lines are entered, the value get_float_input
\* returns is >= min_val and <= max_val where these are given, and a line
\* that does not parse as a number or parses to a value outside the bounds
\* gets a message and a new prompt and is not returned.
C18_ReturnsOnlyValuesInBounds ==
  /\ gfi.state = "returned" => WithinBounds(gfi.value, gfi.min_val, gfi.max_val)
  /\ (/\ gfi.event.kind = "line"
      /\ \/ float(gfi.event.text).status = "ValueError"
         \/ ~WithinBounds(float(gfi.event.text).value, gfi.min_val, gfi.max_val))
     => (gfi.state = "prompt" /\ gfi.message # "none")

IsYes(line) == lower(strip(line)) \in {<<"y">>, <<"y", "e", "s">>}

IsNo(line) == lower(strip(line)) \in {<<"n">>, <<"n", "o">>}

\* the last thing entered was n/no in answer to "Run another simulation?"
AnsweredNo == event.prompt = "again" /\ event.kind = "line" /\ IsNo(event.text)

\* a simulation is between its first prompt and its map
InProgress == pc \in {"diameter", "velocity", "material", "city", "calculate", "visualize"}

\* C19 (as claimed): at the run-again prompt y/yes starts one further
\* simulation, n/no ends the loop and anything else prompts again without
\* running anything; for every sequence of answers (every line entered and
\* every number finite) the number of simulations run is 1 + the number of
\* y/yes answers whenever no simulation is in progress; and once n/no has
\* been answered every run_simulation returns without a further prompt.
C19_RunAgainLoop ==
  /\ [][(pc = "again" /\ event'.kind = "line" /\ pc' # "return") =>
          IF IsYes(event'.text)
          THEN pc' = "diameter" /\ depth' = depth + 1 /\ yes' = yes + 1
               /\ simulations' = simulations
          ELSE ~IsNo(event'.text) /\ pc' = "again"
               /\ UNCHANGED <<depth, yes, simulations, entry>>]_vars
  /\ [][(pc = "again" /\ event'.kind = "line" /\ IsNo(event'.text)) =>
          (pc' = "return" /\ UNCHANGED <<depth, yes, simulations>>)]_vars
  /\ []((/\ ~InProgress
         /\ event.kind = "line"
         /\ ~create_impact_map_raises(entry.diameter, entry.velocity))
        => simulations = 1 + yes)
  /\ [](AnsweredNo => pc \in {"return", "done"})

\* C20: after a KeyboardInterrupt or EOFError at any prompt the session is
\* over: the process has exited or every run_simulation is returning, so
\* there is no prompt, calculation or visualization any more.
C20_InterruptEndsSession ==
  event.kind \in Interrupts => pc \in {"exit", "return", "done"}

\* end of input at the run-again prompt of a nested simulation: the nested
\* run_simulation has returned and the outer one is returning
C20_Witness ==
  /\ event = At("again", InterruptEvent("EOFError"))
  /\ yes = 1
  /\ simulations = 2
  /\ depth = 1
  /\ pc = "return"

Names(names_sorted) == {names_sorted[i] : i \in 1..Len(names_sorted)}

\* the arguments of calculate_impact_effects and create_impact_map are the
\* locals of run_simulation once all four entries are made
EntriesMade == pc \in {"calculate", "visualize"}

\* the selection made from the list by the line last entered is the one the
\* claim describes: entry k of the sorted list for a number k within 1..N,
\* else the name that equals the line up to case
SelectedAsClaimed(names_sorted, selected) ==
  LET choice == strip(event.text)
      k == int(choice)
  IN  IF k.status = "ok" /\ 1 <= k.value /\ k.value <= Len(names_sorted)
      THEN selected = names_sorted[k.value]
      ELSE selected \in Names(names_sorted) /\ lower(selected) = lower(choice)

\* C21 (as claimed): whatever is entered, calculate_impact_effects is called
\* with a diameter >= 0.1, a velocity >= 100 and a key of MATERIALS, and
\* create_impact_map with a city of CITIES; a number k selects entry k of the
\* sorted list only for 1 <= k <= N and a name is matched regardless of case
\* and returned in the spelling of the list.
C21_CliArgumentsValid ==
  /\ EntriesMade =>
       /\ FloatGreaterEq(entry.diameter, Bound(1, 10).value)
       /\ FloatGreaterEq(entry.velocity, Bound(100, 1).value)
       /\ entry.material \in Names(materials_sorted)
       /\ entry.city \in Names(cities_sorted)
  /\ (event.prompt = "material" /\ event.kind = "line" /\ pc # "material")
       => SelectedAsClaimed(materials_sorted, entry.material)
  /\ (event.prompt = "city" /\ event.kind = "line" /\ pc # "city")
       => SelectedAsClaimed(cities_sorted, entry.city)
  /\ (event.prompt = "material" /\ event.kind = "line" /\ pc = "material")
       => \A m \in Names(materials_sorted) : ~SelectedAsClaimed(materials_sorted, m)
  /\ (event.prompt = "city" /\ event.kind = "line" /\ pc = "city")
       => \A c \in Names(cities_sorted) : ~SelectedAsClaimed(cities_sorted, c)

\* the energy of the call in megatons, as line 131 computes it
CallMegatons == Div(call.args.energy_joules, Pos(15622))

\* C22 (as claimed): for every energy >= 0 the record returned by
\* calculate_destruction_radius has fireball = 0.5 * E_mt^0.4 and
\* total_destruction = 2.5 * sqrt(E_mt) and is nested the way
\* calculate_casualties takes its rings: fireball <= total_destruction <=
\* severe_damage <= moderate_damage <= light_damage, so that no ring
\* pi * (outer^2 - inner^2) of two neighbouring radii is negative.
C22_EngineZonesNested ==
  (IsCall("calculate_destruction_radius") /\ ret.status = "ok") =>
    /\ ret.value.fireball = Mul(PowFrac(CallMegatons, 4, 10), Pos(-301))
    /\ ret.value.total_destruction = Mul(Sqrt(CallMegatons), Pos(398))
    /\ \A i \in 1..4 : LessEq(ret.value[ZoneOrder[i]], ret.value[ZoneOrder[i + 1]])

Assessment == ret.value.assessment

\* the three indicators agree, and when they are set the stratospheric
\* fraction is 0.3 and the hemisphere global
IndicatorsAgree ==
  /\ Assessment.is_extinction_event <=> Assessment.is_global_catastrophe
  /\ Assessment.is_global_catastrophe
       <=> Severity \in {"extinction-level", "planet-killer"}
  /\ Assessment.is_extinction_event =>
       /\ DustMass = Mul(Dust.dust_ejected_mass_kg, Pos(-523))
       /\ Dust.affected_hemisphere = "global"

\* C23 (as claimed): for every energy is_extinction_event, is_global_catastrophe
\* and a severity of extinction-level or planet-killer hold together or not
\* at all, and when they hold the stratospheric fraction is 0.3 and the
\* hemisphere global.
C23_IndicatorsAgree == ImpactOk => IndicatorsAgree

\* C23 (amended): the same for every energy other than exactly 10000
\* megatons; at exactly 10000 megatons is_global_catastrophe holds and the
\* severity is extinction-level, while is_extinction_event does not hold and
\* the stratospheric fraction is 0.1.
C23_IndicatorsAgreeOffThreshold ==
  ImpactOk =>
    IF EnergyMt = Pos(4000)
    THEN /\ ~Assessment.is_extinction_event
         /\ Assessment.is_global_catastrophe
         /\ Severity = "extinction-level"
         /\ DustMass = Mul(Dust.dust_ejected_mass_kg, Pos(-1000))
    ELSE IndicatorsAgree

\* an impact of more than 10000 megatons with the three indicators set
C23_Witness ==
  /\ ImpactOk
  /\ Less(Pos(4000), EnergyMt)
  /\ Assessment.is_extinction_event
  /\ Assessment.is_global_catastrophe
  /\ Severity = "extinction-level"
  /\ Dust.dust_ejected_mass_kg.sg > 0

\* C24: for a nested zone record and a density >= 0, in each zone the deaths
\* and the injuries together are at most the truncated population of the
\* zone, pi * (outer^2 - inner^2) * density, and total_deaths +
\* total_injuries <= total_affected.
C24_CasualtiesWithinPopulation ==
  (/\ IsCall("calculate_casualties")
   /\ ret.status = "ok"
   /\ call.args.city_density >= 0
   /\ NestedArgs) =>
    /\ \A i \in 1..5 :
         ret.value.deaths_by_zone[ZoneOrder[i]] + ret.value.injuries_by_zone[ZoneOrder[i]]
           <= RTrunc(ClaimedPopulation(i))
    /\ ret.value.total_deaths + ret.value.total_injuries <= ret.value.total_affected

\* 100 people per km2 on radii 1, 1, 2, 2, 2: all 314 of the fireball dead,
\* 659 dead and 240 injured of the 942 in the severe-damage ring
C24_Witness ==
  /\ IsCall("calculate_casualties")
  /\ call.args.from = "caller"
  /\ call.args.city_density = 100
  /\ call.args.destruction_zones =
       [fireball |-> 1, total_destruction |-> 1, severe_damage |-> 2,
        moderate_damage |-> 2, light_damage |-> 2]
  /\ ret.status = "ok"
  /\ ret.value.deaths_by_zone.fireball = 314
  /\ ret.value.deaths_by_zone.severe_damage = 659
  /\ ret.value.injuries_by_zone.severe_damage = 240
  /\ ret.value.total_deaths + ret.value.total_injuries = 1213
  /\ ret.value.total_affected = 1256

TemperatureDrop == Dust.global_temperature_drop_celsius

\* winter and temperature drop are both 0 or both positive, 0 below 1e12 kg
\* and positive from there upward
ClimateOutputsAgree ==
  /\ Winter > 0 <=> TemperatureDrop > 0
  /\ Less(DustMass, Pos(12000)) => (Winter = 0 /\ TemperatureDrop = 0)
  /\ LessEq(Pos(12000), DustMass) => (Winter > 0 /\ TemperatureDrop > 0)

\* the temperature drop (in thousandths of a degree) lies in [0, 25]
TemperatureDropInRange == 0 <= TemperatureDrop /\ TemperatureDrop <= 25000

\* C25 (as claimed): for every stratospheric dust mass S >= 0 the winter
\* duration is > 0 exactly when the temperature drop is > 0, both are 0 for
\* S < 1e12 kg and both positive for S >= 1e12 kg, and the temperature drop
\* lies in [0, 25].
C25_ClimateConsistent ==
  (ImpactOk /\ DustMass.sg >= 0) => (ClimateOutputsAgree /\ TemperatureDropInRange)

\* C25 (amended): the same for every S >= 0 other than exactly 1e12 kg; at
\* exactly 1e12 kg the winter lasts 0.5 years and the temperature drop is
\* 2 * log10(1) = 0.  The temperature drop lies in [0, 25] for every S.
C25_ClimateConsistentOffThreshold ==
  (ImpactOk /\ DustMass.sg >= 0) =>
    /\ IF DustMass = Pos(12000)
       THEN Winter = 500 /\ TemperatureDrop = 0
       ELSE ClimateOutputsAgree
    /\ TemperatureDropInRange

\* an impact that puts more than 10^24.5 kg of dust into the stratosphere:
\* a winter of more than five years and the drop capped at 25 degrees
C25_Witness ==
  /\ ImpactOk
  /\ Less(Pos(24500), DustMass)
  /\ Winter > 5000
  /\ TemperatureDrop = 25000

====
